---- MODULE Spec2Model ----
(***************************************************************************)
(* Chinese chess (xiangqi): the rule engine (Rules), the board state       *)
(* (GameModel, PieceModel, Position) and the controller's move (Game).     *)
(* A GameModel is a record; a PieceModel is a record whose id is its       *)
(* creation index (the source draws a random string, unique per piece).    *)
(***************************************************************************)
EXTENDS Integers, Sequences, FiniteSets, TLC

VARIABLES
    pieces,        \* GameModel.pieces: the ordered collection of PieceModel
    currentTurn,   \* GameModel.currentTurn
    gameState,     \* GameModel.gameState
    winner,        \* GameModel.winner ("none" is null)
    isInCheckFlag, \* GameModel.isInCheck
    history,       \* GameModel.history: the snapshots undo restores
    selection,     \* GameModel.selectedPieceId (0 is null) and GameModel.validMoves
    gameMode,      \* GameModel.gameMode
    aiDifficulty,  \* GameModel.aiDifficulty
    aiPlayerColor, \* GameModel.aiPlayerColor
    isAIMoving,    \* Game.isAIMoving
    bestMove,      \* the move AI.makeMove holds while it sleeps in checkAndExecuteAITurn
    animation,     \* Animation.animations: the move whose callback is pending
    storage,       \* localStorage: the saved games by storage key
    heap,          \* the objects of a search: piece and position objects, the models that hold them
    chosen,        \* the last call of makeMove and what it returned
    search,        \* the last call of AIWorker.minimax and what it returned
    pliesLeft,     \* moves the exploration may still apply (a bound, no program state)
    opsLeft        \* other operations the exploration may still apply (a bound, no program state)

boardVars == <<pieces, currentTurn, gameState, winner, isInCheckFlag>>
settingVars == <<gameMode, aiDifficulty, aiPlayerColor>>
flightVars == <<selection, isAIMoving, bestMove, animation>>
harnessVars == <<heap, chosen, search>>

vars == <<pieces, currentTurn, gameState, winner, isInCheckFlag, history,
          selection, gameMode, aiDifficulty, aiPlayerColor, isAIMoving, bestMove,
          animation, storage, heap, chosen, search, pliesLeft, opsLeft>>

----------------------------------------------------------------------------
(* Constants.ts *)

BOARD_WIDTH == 8
BOARD_HEIGHT == 9

RED == "red"
BLACK == "black"

KING == "king"
ADVISOR == "advisor"
ELEPHANT == "elephant"
HORSE == "horse"
CHARIOT == "chariot"
CANNON == "cannon"
SOLDIER == "soldier"

PieceTypes == {KING, ADVISOR, ELEPHANT, HORSE, CHARIOT, CANNON, SOLDIER}
PieceColors == {RED, BLACK}

INIT == "init"
PLAYING == "playing"
OVER == "over"

PVP == "pvp"
PVE == "pve"
GameModes == {PVP, PVE}

EASY == "easy"
MEDIUM == "medium"
HARD == "hard"
AIDifficulties == {EASY, MEDIUM, HARD}

\* null, for a winner and for a piece
NoWinner == "none"
\* null, for a move; no animation pending; no call made yet
NoMove == [piece |-> 0, x |-> 0 - 1, y |-> 0 - 1]
NoSelection == [selectedPieceId |-> 0, validMoves |-> << >>]
NoAnimation == [piece |-> 0, color |-> "none", targetX |-> 0 - 1, targetY |-> 0 - 1]
NoCall == [engine |-> "none"]
NoSearch == [done |-> FALSE]
\* no objects allocated
EmptyHeap ==
    [pieceObjs |-> << >>, posObjs |-> << >>, moveTargets |-> {},
     models |-> << >>, target |-> 0, stepsLeft |-> 0]
NoPiece ==
    [id |-> 0, type |-> "none", color |-> "none",
     position |-> [x |-> 0 - 1, y |-> 0 - 1], isAlive |-> FALSE]

----------------------------------------------------------------------------
(* Bounds of the model *)

\* moves applied to a board before the exploration stops
MaxPlies == 2
\* how far outside the board the probed targets reach
Margin == 1

----------------------------------------------------------------------------
(* PieceModel, Position *)

Position(x, y) == [x |-> x, y |-> y]

PieceModel(id, type, color, x, y) ==
    [id |-> id, type |-> type, color |-> color,
     position |-> Position(x, y), isAlive |-> TRUE]

Abs(n) == IF n < 0 THEN 0 - n ELSE n
Min(a, b) == IF a < b THEN a ELSE b
Max(a, b) == IF a < b THEN b ELSE a

\* Position.isValid
isValid(pos) ==
    pos.x >= 0 /\ pos.x <= BOARD_WIDTH /\ pos.y >= 0 /\ pos.y <= BOARD_HEIGHT

Opponent(color) == IF color = RED THEN BLACK ELSE RED

----------------------------------------------------------------------------
(* GameModel *)

GameModel(ps, turn) == [pieces |-> ps, currentTurn |-> turn]

\* Array.prototype.find: the first element satisfying the test, or null
FirstIndex(S) == CHOOSE i \in S : \A j \in S : i <= j

\* GameModel.getPieceAt
getPieceAt(gm, x, y) ==
    IF \E i \in DOMAIN gm.pieces :
          gm.pieces[i].isAlive /\ gm.pieces[i].position.x = x /\ gm.pieces[i].position.y = y
    THEN gm.pieces[FirstIndex({i \in DOMAIN gm.pieces :
          gm.pieces[i].isAlive /\ gm.pieces[i].position.x = x /\ gm.pieces[i].position.y = y})]
    ELSE NoPiece

\* GameModel.getPiecesByColor, as the indices of the pieces it returns
getPiecesByColor(gm, color) ==
    {i \in DOMAIN gm.pieces : gm.pieces[i].isAlive /\ gm.pieces[i].color = color}

\* GameModel.getCurrentTurnPieces
getCurrentTurnPieces(gm) == getPiecesByColor(gm, gm.currentTurn)

\* the live general of a side: pieces.find(isAlive && KING && color), or null
FindKing(gm, color) ==
    LET S == {i \in DOMAIN gm.pieces :
                  /\ gm.pieces[i].isAlive
                  /\ gm.pieces[i].type = KING
                  /\ gm.pieces[i].color = color}
    IN IF S = {} THEN NoPiece ELSE gm.pieces[FirstIndex(S)]

----------------------------------------------------------------------------
(* Rules *)

\* isInPalace with the file range left out
isInPalaceAnyFile(x, y, color) ==
    y \in (IF color = RED THEN {7, 8, 9} ELSE {0, 1, 2})

\* Rules.isInPalace
isInPalace(x, y, color) ==
    /\ x \in {3, 4, 5}
    /\ y \in (IF color = RED THEN {7, 8, 9} ELSE {0, 1, 2})

\* Rules.isPathClear
isPathClear(piece, targetX, targetY, gm) ==
    LET startX == piece.position.x
        startY == piece.position.y
    IN IF startY = targetY
       THEN \A x \in (Min(startX, targetX) + 1)..(Max(startX, targetX) - 1) :
                getPieceAt(gm, x, startY) = NoPiece
       ELSE IF startX = targetX
       THEN \A y \in (Min(startY, targetY) + 1)..(Max(startY, targetY) - 1) :
                getPieceAt(gm, startX, y) = NoPiece
       ELSE TRUE

\* hasExactlyOneCannonMount accepting any number of mounts but zero
hasAtLeastOneCannonMount(piece, targetX, targetY, gm) ==
    LET startX == piece.position.x
        startY == piece.position.y
        mountCount ==
            IF startY = targetY
            THEN Cardinality({x \in (Min(startX, targetX) + 1)..(Max(startX, targetX) - 1) :
                                 getPieceAt(gm, x, startY) # NoPiece})
            ELSE IF startX = targetX
            THEN Cardinality({y \in (Min(startY, targetY) + 1)..(Max(startY, targetY) - 1) :
                                 getPieceAt(gm, startX, y) # NoPiece})
            ELSE 0
    IN mountCount >= 1

\* Rules.hasExactlyOneCannonMount
hasExactlyOneCannonMount(piece, targetX, targetY, gm) ==
    LET startX == piece.position.x
        startY == piece.position.y
        mountCount ==
            IF startY = targetY
            THEN Cardinality({x \in (Min(startX, targetX) + 1)..(Max(startX, targetX) - 1) :
                                 getPieceAt(gm, x, startY) # NoPiece})
            ELSE IF startX = targetX
            THEN Cardinality({y \in (Min(startY, targetY) + 1)..(Max(startY, targetY) - 1) :
                                 getPieceAt(gm, startX, y) # NoPiece})
            ELSE 0
    IN mountCount = 1

\* isKingFaceToFace without the scan of the squares between the generals
isKingFaceToFaceSameFile(gm) ==
    LET redKing == FindKing(gm, RED)
        blackKing == FindKing(gm, BLACK)
    IN IF redKing = NoPiece \/ blackKing = NoPiece THEN FALSE
       ELSE redKing.position.x = blackKing.position.x

\* Rules.isKingFaceToFace
isKingFaceToFace(gm) ==
    LET redKing == FindKing(gm, RED)
        blackKing == FindKing(gm, BLACK)
    IN IF redKing = NoPiece \/ blackKing = NoPiece THEN FALSE
       ELSE IF redKing.position.x # blackKing.position.x THEN FALSE
       ELSE \A y \in (Min(redKing.position.y, blackKing.position.y) + 1)
                     ..(Max(redKing.position.y, blackKing.position.y) - 1) :
                getPieceAt(gm, redKing.position.x, y) = NoPiece

\* Rules.canMoveWithoutCheck
canMoveWithoutCheck(piece, targetX, targetY, gm) ==
    LET targetPiece == getPieceAt(gm, targetX, targetY)
        dx == Abs(targetX - piece.position.x)
        dy == Abs(targetY - piece.position.y)
    IN IF ~isValid(Position(targetX, targetY)) THEN FALSE
       ELSE IF targetPiece # NoPiece /\ targetPiece.color = piece.color THEN FALSE
       ELSE CASE piece.type = KING ->
                    /\ isInPalace(targetX, targetY, piece.color)
                    /\ ((dx = 1 /\ dy = 0) \/ (dx = 0 /\ dy = 1))
              [] piece.type = ADVISOR ->
                    /\ isInPalace(targetX, targetY, piece.color)
                    /\ dx = 1 /\ dy = 1
              [] piece.type = ELEPHANT ->
                    IF (piece.color = RED /\ targetY < 5) \/ (piece.color = BLACK /\ targetY > 4)
                    THEN FALSE
                    ELSE IF dx = 2 /\ dy = 2
                    THEN getPieceAt(gm, (piece.position.x + targetX) \div 2,
                                        (piece.position.y + targetY) \div 2) = NoPiece
                    ELSE FALSE
              [] piece.type = HORSE ->
                    IF (dx = 1 /\ dy = 2) \/ (dx = 2 /\ dy = 1)
                    THEN IF dx = 1
                         THEN getPieceAt(gm, piece.position.x,
                                             (piece.position.y + targetY) \div 2) = NoPiece
                         ELSE getPieceAt(gm, (piece.position.x + targetX) \div 2,
                                             piece.position.y) = NoPiece
                    ELSE FALSE
              [] piece.type = CHARIOT ->
                    IF piece.position.x # targetX /\ piece.position.y # targetY THEN FALSE
                    ELSE isPathClear(piece, targetX, targetY, gm)
              [] piece.type = CANNON ->
                    IF piece.position.x # targetX /\ piece.position.y # targetY THEN FALSE
                    ELSE IF targetPiece # NoPiece
                    THEN hasExactlyOneCannonMount(piece, targetX, targetY, gm)
                    ELSE isPathClear(piece, targetX, targetY, gm)
              [] piece.type = SOLDIER ->
                    IF dx + dy # 1 THEN FALSE
                    ELSE IF piece.color = RED /\ piece.position.y > 4
                            /\ targetY >= piece.position.y THEN FALSE
                    ELSE IF piece.color = BLACK /\ piece.position.y < 5
                            /\ targetY <= piece.position.y THEN FALSE
                    ELSE IF piece.color = RED /\ targetY > piece.position.y THEN FALSE
                    ELSE IF piece.color = BLACK /\ targetY < piece.position.y THEN FALSE
                    ELSE TRUE
              [] OTHER -> FALSE

\* isInCheck without the test for facing generals
isInCheckNoFacing(color, gm) ==
    LET king == FindKing(gm, color)
    IN IF king = NoPiece THEN FALSE
       ELSE \E i \in getPiecesByColor(gm, Opponent(color)) :
                canMoveWithoutCheck(gm.pieces[i], king.position.x, king.position.y, gm)

\* Rules.isInCheck
isInCheck(color, gm) ==
    LET king == FindKing(gm, color)
    IN IF king = NoPiece THEN FALSE
       ELSE IF isKingFaceToFace(gm) THEN TRUE
       ELSE \E i \in getPiecesByColor(gm, Opponent(color)) :
                canMoveWithoutCheck(gm.pieces[i], king.position.x, king.position.y, gm)

\* the clone Rules.wouldBeInCheckAfterMove mutates: the occupant of the target
\* marked dead, the piece's copy (found by id) relocated
MovedCopy(piece, targetX, targetY, gm) ==
    LET k == FirstIndex({i \in DOMAIN gm.pieces : gm.pieces[i].id = piece.id})
        S == {i \in DOMAIN gm.pieces :
                  /\ gm.pieces[i].isAlive
                  /\ gm.pieces[i].position.x = targetX
                  /\ gm.pieces[i].position.y = targetY}
        killed == IF S = {} THEN gm.pieces
                  ELSE [gm.pieces EXCEPT ![FirstIndex(S)].isAlive = FALSE]
    IN [gm EXCEPT !.pieces =
            [killed EXCEPT ![k].position = Position(targetX, targetY)]]

\* Rules.wouldBeInCheckAfterMove
wouldBeInCheckAfterMove(piece, targetX, targetY, gm) ==
    IF \A i \in DOMAIN gm.pieces : gm.pieces[i].id # piece.id THEN FALSE
    ELSE \E gameCopy \in {MovedCopy(piece, targetX, targetY, gm)} :
             isInCheck(piece.color, gameCopy)

\* Rules.canMoveKing
canMoveKing(piece, targetX, targetY, gm) ==
    LET dx == Abs(targetX - piece.position.x)
        dy == Abs(targetY - piece.position.y)
    IN IF ~isInPalace(targetX, targetY, piece.color) THEN FALSE
       ELSE IF (dx = 1 /\ dy = 0) \/ (dx = 0 /\ dy = 1)
       THEN ~wouldBeInCheckAfterMove(piece, targetX, targetY, gm)
       ELSE FALSE

\* Rules.canMoveAdvisor
canMoveAdvisor(piece, targetX, targetY, gm) ==
    LET dx == Abs(targetX - piece.position.x)
        dy == Abs(targetY - piece.position.y)
    IN IF ~isInPalace(targetX, targetY, piece.color) THEN FALSE
       ELSE IF dx = 1 /\ dy = 1
       THEN ~wouldBeInCheckAfterMove(piece, targetX, targetY, gm)
       ELSE FALSE

\* canMoveElephant without the test of the elephant's eye
canMoveElephantNoEye(piece, targetX, targetY, gm) ==
    LET dx == Abs(targetX - piece.position.x)
        dy == Abs(targetY - piece.position.y)
    IN IF piece.color = RED /\ targetY < 5 THEN FALSE
       ELSE IF piece.color = BLACK /\ targetY > 4 THEN FALSE
       ELSE IF dx = 2 /\ dy = 2
       THEN ~wouldBeInCheckAfterMove(piece, targetX, targetY, gm)
       ELSE FALSE

\* Rules.canMoveElephant
canMoveElephant(piece, targetX, targetY, gm) ==
    LET dx == Abs(targetX - piece.position.x)
        dy == Abs(targetY - piece.position.y)
    IN IF piece.color = RED /\ targetY < 5 THEN FALSE
       ELSE IF piece.color = BLACK /\ targetY > 4 THEN FALSE
       ELSE IF dx = 2 /\ dy = 2
               /\ getPieceAt(gm, (piece.position.x + targetX) \div 2,
                                 (piece.position.y + targetY) \div 2) = NoPiece
       THEN ~wouldBeInCheckAfterMove(piece, targetX, targetY, gm)
       ELSE FALSE

\* Rules.canMoveHorse
canMoveHorse(piece, targetX, targetY, gm) ==
    LET dx == Abs(targetX - piece.position.x)
        dy == Abs(targetY - piece.position.y)
    IN IF (dx = 1 /\ dy = 2) \/ (dx = 2 /\ dy = 1)
       THEN IF dx = 1
            THEN IF getPieceAt(gm, piece.position.x,
                                   (piece.position.y + targetY) \div 2) = NoPiece
                 THEN ~wouldBeInCheckAfterMove(piece, targetX, targetY, gm)
                 ELSE FALSE
            ELSE IF getPieceAt(gm, (piece.position.x + targetX) \div 2,
                                   piece.position.y) = NoPiece
                 THEN ~wouldBeInCheckAfterMove(piece, targetX, targetY, gm)
                 ELSE FALSE
       ELSE FALSE

\* Rules.canMoveChariot
canMoveChariot(piece, targetX, targetY, gm) ==
    IF piece.position.x # targetX /\ piece.position.y # targetY THEN FALSE
    ELSE IF ~isPathClear(piece, targetX, targetY, gm) THEN FALSE
    ELSE ~wouldBeInCheckAfterMove(piece, targetX, targetY, gm)

\* Rules.canMoveCannon
canMoveCannon(piece, targetX, targetY, gm) ==
    IF piece.position.x # targetX /\ piece.position.y # targetY THEN FALSE
    ELSE IF getPieceAt(gm, targetX, targetY) # NoPiece
    THEN hasExactlyOneCannonMount(piece, targetX, targetY, gm)
    ELSE isPathClear(piece, targetX, targetY, gm)

\* canMoveSoldier with the river one rank off: a soldier standing on the far
\* bank's first rank still counts as not having crossed
canMoveSoldierRiverOff(piece, targetX, targetY, gm) ==
    LET dx == Abs(targetX - piece.position.x)
        dy == Abs(targetY - piece.position.y)
    IN IF dx + dy # 1 THEN FALSE
       ELSE IF piece.color = RED /\ piece.position.y > 3
       THEN IF targetY >= piece.position.y THEN FALSE
            ELSE ~wouldBeInCheckAfterMove(piece, targetX, targetY, gm)
       ELSE IF piece.color = BLACK /\ piece.position.y < 6
       THEN IF targetY <= piece.position.y THEN FALSE
            ELSE ~wouldBeInCheckAfterMove(piece, targetX, targetY, gm)
       ELSE IF piece.color = RED /\ targetY > piece.position.y THEN FALSE
       ELSE IF piece.color = BLACK /\ targetY < piece.position.y THEN FALSE
       ELSE ~wouldBeInCheckAfterMove(piece, targetX, targetY, gm)

\* Rules.canMoveSoldier
canMoveSoldier(piece, targetX, targetY, gm) ==
    LET dx == Abs(targetX - piece.position.x)
        dy == Abs(targetY - piece.position.y)
    IN IF dx + dy # 1 THEN FALSE
       ELSE IF piece.color = RED /\ piece.position.y > 4
       THEN IF targetY >= piece.position.y THEN FALSE
            ELSE ~wouldBeInCheckAfterMove(piece, targetX, targetY, gm)
       ELSE IF piece.color = BLACK /\ piece.position.y < 5
       THEN IF targetY <= piece.position.y THEN FALSE
            ELSE ~wouldBeInCheckAfterMove(piece, targetX, targetY, gm)
       ELSE IF piece.color = RED /\ targetY > piece.position.y THEN FALSE
       ELSE IF piece.color = BLACK /\ targetY < piece.position.y THEN FALSE
       ELSE ~wouldBeInCheckAfterMove(piece, targetX, targetY, gm)

\* Rules.canMove
canMove(piece, targetX, targetY, gm) ==
    LET targetPiece == getPieceAt(gm, targetX, targetY)
    IN IF ~isValid(Position(targetX, targetY)) THEN FALSE
       ELSE IF targetPiece # NoPiece /\ targetPiece.color = piece.color THEN FALSE
       ELSE CASE piece.type = KING -> canMoveKing(piece, targetX, targetY, gm)
              [] piece.type = ADVISOR -> canMoveAdvisor(piece, targetX, targetY, gm)
              [] piece.type = ELEPHANT -> canMoveElephant(piece, targetX, targetY, gm)
              [] piece.type = HORSE -> canMoveHorse(piece, targetX, targetY, gm)
              [] piece.type = CHARIOT -> canMoveChariot(piece, targetX, targetY, gm)
              [] piece.type = CANNON -> canMoveCannon(piece, targetX, targetY, gm)
              [] piece.type = SOLDIER -> canMoveSoldier(piece, targetX, targetY, gm)
              [] OTHER -> FALSE

\* the scan with the inner loop ending one rank early (y < 9)
ScanOrderShort ==
    [k \in 1..((BOARD_WIDTH + 1) * BOARD_HEIGHT) |->
        Position((k - 1) \div BOARD_HEIGHT, (k - 1) % BOARD_HEIGHT)]

\* the squares in the order of getValidMoves' two loops: x outer, y inner
ScanOrder ==
    [k \in 1..((BOARD_WIDTH + 1) * (BOARD_HEIGHT + 1)) |->
        Position((k - 1) \div (BOARD_HEIGHT + 1), (k - 1) % (BOARD_HEIGHT + 1))]

\* Rules.getValidMoves
getValidMoves(piece, gm) ==
    LET Test(pos) == canMove(piece, pos.x, pos.y, gm)
    IN SelectSeq(ScanOrder, Test)

\* checkGameOver awarding a stalemate to the side that cannot move
checkGameOverStalemateSelf(gm) ==
    LET redKingAlive == \E i \in DOMAIN gm.pieces :
            gm.pieces[i].isAlive /\ gm.pieces[i].type = KING /\ gm.pieces[i].color = RED
        blackKingAlive == \E i \in DOMAIN gm.pieces :
            gm.pieces[i].isAlive /\ gm.pieces[i].type = KING /\ gm.pieces[i].color = BLACK
        hasValidMove == \E i \in getCurrentTurnPieces(gm) :
            Len(getValidMoves(gm.pieces[i], gm)) > 0
    IN IF ~redKingAlive THEN BLACK
       ELSE IF ~blackKingAlive THEN RED
       ELSE IF isKingFaceToFace(gm)
       THEN (IF gm.currentTurn = RED THEN RED ELSE BLACK)
       ELSE IF ~hasValidMove THEN gm.currentTurn
       ELSE NoWinner

\* checkGameOver awarding the game to the side whose general is missing
checkGameOverMissingSelf(gm) ==
    LET redKingAlive == \E i \in DOMAIN gm.pieces :
            gm.pieces[i].isAlive /\ gm.pieces[i].type = KING /\ gm.pieces[i].color = RED
        blackKingAlive == \E i \in DOMAIN gm.pieces :
            gm.pieces[i].isAlive /\ gm.pieces[i].type = KING /\ gm.pieces[i].color = BLACK
        hasValidMove == \E i \in getCurrentTurnPieces(gm) :
            Len(getValidMoves(gm.pieces[i], gm)) > 0
    IN IF ~redKingAlive THEN RED
       ELSE IF ~blackKingAlive THEN BLACK
       ELSE IF isKingFaceToFace(gm)
       THEN (IF gm.currentTurn = RED THEN RED ELSE BLACK)
       ELSE IF ~hasValidMove THEN Opponent(gm.currentTurn)
       ELSE NoWinner

\* checkGameOver without the test for a side that cannot move
checkGameOverNoStalemate(gm) ==
    LET redKingAlive == \E i \in DOMAIN gm.pieces :
            gm.pieces[i].isAlive /\ gm.pieces[i].type = KING /\ gm.pieces[i].color = RED
        blackKingAlive == \E i \in DOMAIN gm.pieces :
            gm.pieces[i].isAlive /\ gm.pieces[i].type = KING /\ gm.pieces[i].color = BLACK
    IN IF ~redKingAlive THEN BLACK
       ELSE IF ~blackKingAlive THEN RED
       ELSE IF isKingFaceToFace(gm)
       THEN (IF gm.currentTurn = RED THEN RED ELSE BLACK)
       ELSE NoWinner

\* Rules.checkGameOver
checkGameOver(gm) ==
    LET redKingAlive == \E i \in DOMAIN gm.pieces :
            gm.pieces[i].isAlive /\ gm.pieces[i].type = KING /\ gm.pieces[i].color = RED
        blackKingAlive == \E i \in DOMAIN gm.pieces :
            gm.pieces[i].isAlive /\ gm.pieces[i].type = KING /\ gm.pieces[i].color = BLACK
        hasValidMove == \E i \in getCurrentTurnPieces(gm) :
            Len(getValidMoves(gm.pieces[i], gm)) > 0
    IN IF ~redKingAlive THEN BLACK
       ELSE IF ~blackKingAlive THEN RED
       ELSE IF isKingFaceToFace(gm)
       THEN (IF gm.currentTurn = RED THEN RED ELSE BLACK)
       ELSE IF ~hasValidMove THEN Opponent(gm.currentTurn)
       ELSE NoWinner

----------------------------------------------------------------------------
(* Game *)

\* Game.initializePieces over INITIAL_POSITIONS: red then black, each in the
\* order king, advisor, elephant, horse, chariot, cannon, soldier
InitialPieces ==
    << PieceModel(1, KING, RED, 4, 9),
       PieceModel(2, ADVISOR, RED, 3, 9), PieceModel(3, ADVISOR, RED, 5, 9),
       PieceModel(4, ELEPHANT, RED, 2, 9), PieceModel(5, ELEPHANT, RED, 6, 9),
       PieceModel(6, HORSE, RED, 1, 9), PieceModel(7, HORSE, RED, 7, 9),
       PieceModel(8, CHARIOT, RED, 0, 9), PieceModel(9, CHARIOT, RED, 8, 9),
       PieceModel(10, CANNON, RED, 1, 7), PieceModel(11, CANNON, RED, 7, 7),
       PieceModel(12, SOLDIER, RED, 0, 6), PieceModel(13, SOLDIER, RED, 2, 6),
       PieceModel(14, SOLDIER, RED, 4, 6), PieceModel(15, SOLDIER, RED, 6, 6),
       PieceModel(16, SOLDIER, RED, 8, 6),
       PieceModel(17, KING, BLACK, 4, 0),
       PieceModel(18, ADVISOR, BLACK, 3, 0), PieceModel(19, ADVISOR, BLACK, 5, 0),
       PieceModel(20, ELEPHANT, BLACK, 2, 0), PieceModel(21, ELEPHANT, BLACK, 6, 0),
       PieceModel(22, HORSE, BLACK, 1, 0), PieceModel(23, HORSE, BLACK, 7, 0),
       PieceModel(24, CHARIOT, BLACK, 0, 0), PieceModel(25, CHARIOT, BLACK, 8, 0),
       PieceModel(26, CANNON, BLACK, 1, 2), PieceModel(27, CANNON, BLACK, 7, 2),
       PieceModel(28, SOLDIER, BLACK, 0, 3), PieceModel(29, SOLDIER, BLACK, 2, 3),
       PieceModel(30, SOLDIER, BLACK, 4, 3), PieceModel(31, SOLDIER, BLACK, 6, 3),
       PieceModel(32, SOLDIER, BLACK, 8, 3) >>

\* the fields a GameModel is constructed with, and Game's own
DefaultSettings ==
    /\ gameMode = PVP
    /\ aiDifficulty = MEDIUM
    /\ aiPlayerColor = BLACK

\* no decision of the AI in flight, no animation pending, nothing saved
Quiet ==
    /\ history = << >>
    /\ selection = NoSelection
    /\ isAIMoving = FALSE
    /\ bestMove = NoMove
    /\ animation = NoAnimation
    /\ storage = << >>

\* no search running
NoHarness ==
    /\ heap = EmptyHeap
    /\ chosen = NoCall
    /\ search = NoSearch

\* the state Game.newGame leaves, as the constructor calls it
NewGame ==
    /\ pieces = InitialPieces
    /\ currentTurn = RED
    /\ gameState = PLAYING
    /\ winner = NoWinner
    /\ isInCheckFlag = FALSE

Init ==
    /\ NewGame
    /\ DefaultSettings
    /\ Quiet
    /\ NoHarness
    /\ pliesLeft = MaxPlies
    /\ opsLeft = 0

\* the board after Game.movePiece's capture and its callback's moveTo
MovedPieces(ps, i, targetX, targetY) ==
    LET targetPiece == getPieceAt(GameModel(ps, RED), targetX, targetY)
        captured ==
            IF targetPiece # NoPiece /\ targetPiece.color # ps[i].color
            THEN [j \in DOMAIN ps |->
                     IF ps[j].id = targetPiece.id
                     THEN [ps[j] EXCEPT !.isAlive = FALSE]
                     ELSE ps[j]]
            ELSE ps
    IN [captured EXCEPT ![i].position = Position(targetX, targetY)]

\* GameModel.clone of the canonical state, as saveCurrentStateToHistory
\* pushes it: the clone's own history is empty
Snapshot ==
    [pieces |-> pieces, currentTurn |-> currentTurn, gameState |-> gameState,
     winner |-> winner, isInCheck |-> isInCheckFlag, history |-> << >>,
     gameMode |-> gameMode, aiDifficulty |-> aiDifficulty,
     aiPlayerColor |-> aiPlayerColor]

\* Game.movePiece with its animation callback, for a piece selected by
\* handleMouseClick (a live piece of the side to move) and a target
\* that GameModel.isValidMove finds among getValidMoves
ApplyMove(i, targetX, targetY) ==
    \E after \in {MovedPieces(pieces, i, targetX, targetY)} :
    \E w \in {checkGameOver(GameModel(after, currentTurn))} :
       /\ history' = Append(history, Snapshot)
       /\ pieces' = after
       /\ pliesLeft' = pliesLeft - 1
       /\ IF w # NoWinner
          THEN /\ winner' = w
               /\ gameState' = OVER
               /\ isInCheckFlag' = isInCheck(Opponent(currentTurn),
                                             GameModel(after, currentTurn))
               /\ UNCHANGED currentTurn
          ELSE /\ currentTurn' = Opponent(currentTurn)
               /\ isInCheckFlag' = isInCheck(Opponent(currentTurn),
                                             GameModel(after, Opponent(currentTurn)))
               /\ UNCHANGED <<winner, gameState>>

\* a click on a piece of the side to move (Game.selectPiece) and a click on
\* one of its valid moves (Game.handleMouseClick)
Move ==
    /\ gameState = PLAYING
    /\ pliesLeft > 0
    /\ animation = NoAnimation
    /\ ~isAIMoving
    /\ ~(gameMode = PVE /\ currentTurn = aiPlayerColor)
    /\ UNCHANGED <<settingVars, flightVars, storage, harnessVars, opsLeft>>
    /\ \E i \in getCurrentTurnPieces(GameModel(pieces, currentTurn)) :
          \E validMoves \in {getValidMoves(pieces[i], GameModel(pieces, currentTurn))} :
             \E k \in DOMAIN validMoves :
                ApplyMove(i, validMoves[k].x, validMoves[k].y)

Next == Move

Spec == Init /\ [][Next]_vars

----------------------------------------------------------------------------
(* Boards handed to the rule engine: a game in play with nine pieces left,    *)
(* each piece on one of a few squares, the black men possibly captured.       *)

Placed(id, type, color, sq) ==
    [id |-> id, type |-> type, color |-> color,
     position |-> Position(sq[1], sq[2]), isAlive |-> sq[3]]

RulesBoards ==
    { << Placed(1, KING, RED, <<4, 9, TRUE>>),
         Placed(2, ADVISOR, RED, <<5, 9, TRUE>>),
         Placed(3, ELEPHANT, RED, <<2, 9, TRUE>>),
         Placed(4, CANNON, RED, c),
         Placed(5, SOLDIER, RED, rs),
         Placed(6, KING, BLACK, bk),
         Placed(7, HORSE, BLACK, h),
         Placed(8, CHARIOT, BLACK, ch),
         Placed(9, SOLDIER, BLACK, bs) >> :
        c \in {<<4, 7, TRUE>>, <<1, 7, TRUE>>},
        rs \in {<<4, 6, TRUE>>, <<3, 2, TRUE>>},
        bk \in {<<4, 0, TRUE>>, <<3, 0, TRUE>>},
        h \in {<<1, 8, TRUE>>, <<2, 8, TRUE>>, <<1, 8, FALSE>>},
        ch \in {<<8, 8, TRUE>>, <<8, 8, FALSE>>},
        bs \in {<<4, 3, TRUE>>, <<4, 5, TRUE>>, <<4, 3, FALSE>>} }

\* a board in play: the move before it did not end the game (the callback of
\* Game.movePiece calls checkGameOver before it switches the turn), and the
\* check flag is the one that callback stored
InPlay(ps, turn) ==
    /\ checkGameOver(GameModel(ps, Opponent(turn))) = NoWinner
    /\ DefaultSettings
    /\ Quiet
    /\ NoHarness
    /\ opsLeft = 0
    /\ pieces = ps
    /\ currentTurn = turn
    /\ gameState = PLAYING
    /\ winner = NoWinner
    /\ isInCheckFlag = isInCheck(turn, GameModel(ps, turn))

InitRules ==
    \/ /\ NewGame
       /\ DefaultSettings
       /\ Quiet
       /\ NoHarness
       /\ opsLeft = 0
       /\ pliesLeft = MaxPlies - 1
    \/ /\ \E ps \in RulesBoards : \E turn \in PieceColors : InPlay(ps, turn)
       /\ pliesLeft = MaxPlies - 1

RulesSpec == InitRules /\ [][Next]_vars

----------------------------------------------------------------------------
(* What the claims speak of, stated on the board itself *)

GM == GameModel(pieces, currentTurn)

Xs == 0..BOARD_WIDTH
Ys == 0..BOARD_HEIGHT

LivePieces == {i \in DOMAIN pieces : pieces[i].isAlive}

LiveOfType(type) == {i \in LivePieces : pieces[i].type = type}

\* some live piece stands on (x, y)
Occupied(x, y) ==
    \E i \in LivePieces : pieces[i].position.x = x /\ pieces[i].position.y = y

\* some live piece of the colour stands on (x, y)
OccupiedBy(color, x, y) ==
    \E i \in LivePieces :
        /\ pieces[i].color = color
        /\ pieces[i].position.x = x
        /\ pieces[i].position.y = y

SameLine(x1, y1, x2, y2) == (x1 = x2) # (y1 = y2)

\* the live pieces strictly between two squares of one rank or file
Between(x1, y1, x2, y2) ==
    Cardinality({i \in LivePieces :
        LET px == pieces[i].position.x
            py == pieces[i].position.y
        IN \/ /\ y1 = y2 /\ py = y1
              /\ Min(x1, x2) < px /\ px < Max(x1, x2)
           \/ /\ x1 = x2 /\ px = x1
              /\ Min(y1, y2) < py /\ py < Max(y1, y2)})

KingAlive(color) == \E i \in LiveOfType(KING) : pieces[i].color = color

\* the two generals on one file with no live piece between them
Facing ==
    \E r \in LiveOfType(KING) : \E b \in LiveOfType(KING) :
        /\ pieces[r].color = RED /\ pieces[b].color = BLACK
        /\ pieces[r].position.x = pieces[b].position.x
        /\ Between(pieces[r].position.x, pieces[r].position.y,
                   pieces[b].position.x, pieces[b].position.y) = 0

OwnPalace(color, x, y) ==
    /\ 3 <= x /\ x <= 5
    /\ IF color = RED THEN 7 <= y /\ y <= 9 ELSE 0 <= y /\ y <= 2

OwnBank(color, y) == IF color = RED THEN y >= 5 ELSE y <= 4

\* a soldier's step: one square, forward, or sideways once across the river
SoldierStep(p, x, y) ==
    LET forward == IF p.color = RED THEN p.position.y - y ELSE y - p.position.y
        sideways == Abs(x - p.position.x)
    IN \/ forward = 1 /\ sideways = 0
       \/ forward = 0 /\ sideways = 1 /\ ~OwnBank(p.color, p.position.y)

\* an elephant's step: two squares along a diagonal on its own bank, the
\* square in the middle empty
ElephantStep(p, x, y) ==
    /\ Abs(x - p.position.x) = 2 /\ Abs(y - p.position.y) = 2
    /\ OwnBank(p.color, y)
    /\ ~Occupied((p.position.x + x) \div 2, (p.position.y + y) \div 2)

\* the movement rule of the piece's type, self-check ignored
PseudoLegal(p, x, y) ==
    LET dx == Abs(x - p.position.x)
        dy == Abs(y - p.position.y)
    IN /\ x \in Xs /\ y \in Ys
       /\ ~OccupiedBy(p.color, x, y)
       /\ CASE p.type = KING -> OwnPalace(p.color, x, y) /\ dx + dy = 1
            [] p.type = ADVISOR -> OwnPalace(p.color, x, y) /\ dx = 1 /\ dy = 1
            [] p.type = ELEPHANT -> ElephantStep(p, x, y)
            [] p.type = HORSE ->
                  \/ /\ dx = 1 /\ dy = 2
                     /\ ~Occupied(p.position.x, (p.position.y + y) \div 2)
                  \/ /\ dx = 2 /\ dy = 1
                     /\ ~Occupied((p.position.x + x) \div 2, p.position.y)
            [] p.type = CHARIOT ->
                  /\ SameLine(p.position.x, p.position.y, x, y)
                  /\ Between(p.position.x, p.position.y, x, y) = 0
            [] p.type = CANNON ->
                  /\ SameLine(p.position.x, p.position.y, x, y)
                  /\ Between(p.position.x, p.position.y, x, y)
                        = (IF Occupied(x, y) THEN 1 ELSE 0)
            [] p.type = SOLDIER -> SoldierStep(p, x, y)
            [] OTHER -> FALSE

\* the board once piece i has been moved to (x, y): the occupant captured,
\* the mover relocated; the side to move is left as it is
AfterMove(i, x, y) == GameModel(MovedPieces(pieces, i, x, y), currentTurn)

\* the move of piece i to (x, y) leaves its own general in check
LeavesOwnGeneralInCheck(i, x, y) == isInCheck(pieces[i].color, AfterMove(i, x, y))

HasLegalMove(color) ==
    \E i \in LivePieces :
        /\ pieces[i].color = color
        /\ \E x \in Xs : \E y \in Ys : canMove(pieces[i], x, y, GM)

----------------------------------------------------------------------------
(* C1: legality soundness. For every live piece and every square of the     *)
(* board, if canMove accepts the move then, once the move is applied (the   *)
(* occupant captured, the mover relocated), isInCheck is false for the      *)
(* mover's own side.                                                        *)
C1_LegalitySoundness ==
    \A i \in LivePieces : \A x \in Xs : \A y \in Ys :
        canMove(pieces[i], x, y, GM) => ~LeavesOwnGeneralInCheck(i, x, y)

----------------------------------------------------------------------------
(* C2: move generation is complete and ordered. For every piece,            *)
(* getValidMoves holds the square (x, y) exactly when canMove accepts it,   *)
(* for all 90 squares, and lists the squares by x ascending, then y         *)
(* ascending, none twice.                                                   *)
ScanBefore(a, b) == a.x < b.x \/ (a.x = b.x /\ a.y < b.y)

C2_ValidMovesComplete ==
    \A i \in DOMAIN pieces :
        \E moves \in {getValidMoves(pieces[i], GM)} :
            /\ \A x \in Xs : \A y \in Ys :
                  (\E k \in DOMAIN moves : moves[k] = Position(x, y))
                      <=> canMove(pieces[i], x, y, GM)
            /\ \A k \in DOMAIN moves : moves[k].x \in Xs /\ moves[k].y \in Ys
            /\ \A k \in 1..(Len(moves) - 1) : ScanBefore(moves[k], moves[k + 1])

\* a move has been applied and a piece of the side to move has moves on
\* the last rank and on an earlier one
C2_Witness ==
    /\ pliesLeft = 0
    /\ \E i \in LivePieces :
          \E moves \in {getValidMoves(pieces[i], GM)} :
             /\ Len(moves) >= 3
             /\ \E k \in DOMAIN moves : moves[k].y = BOARD_HEIGHT
             /\ \E k \in DOMAIN moves : moves[k].y < BOARD_HEIGHT

----------------------------------------------------------------------------
(* C3: isInCheck(side) is true exactly when the side's general is alive and *)
(* either the two generals face each other on a file with no live piece     *)
(* between them, or some live piece of the other side has a pseudo-legal    *)
(* move onto the general's square.                                          *)
C3_InCheckIff ==
    \A color \in PieceColors :
        isInCheck(color, GM) <=>
            \E k \in LiveOfType(KING) :
                /\ pieces[k].color = color
                /\ \/ Facing
                   \/ \E i \in LivePieces :
                         /\ pieces[i].color = Opponent(color)
                         /\ PseudoLegal(pieces[i], pieces[k].position.x,
                                        pieces[k].position.y)

\* after a move, the side to move is in check from a piece, the generals
\* not facing
C3_Witness ==
    /\ pliesLeft = 0
    /\ gameState = PLAYING
    /\ ~Facing
    /\ isInCheck(currentTurn, GM)
    /\ isInCheckFlag

----------------------------------------------------------------------------
(* C4: stalemate detection. With both generals alive and not facing,        *)
(* checkGameOver returns the opponent of the side to move when that side    *)
(* has no legal move for any live piece, and null when it has one.          *)
C4_Stalemate ==
    (KingAlive(RED) /\ KingAlive(BLACK) /\ ~Facing) =>
        checkGameOver(GM) =
            (IF HasLegalMove(currentTurn) THEN NoWinner ELSE Opponent(currentTurn))

\* a move has left the side to move, its general alive, without a legal move
C4_Witness ==
    /\ pliesLeft = 0
    /\ KingAlive(RED) /\ KingAlive(BLACK) /\ ~Facing
    /\ ~HasLegalMove(currentTurn)
    /\ checkGameOver(GM) = Opponent(currentTurn)

----------------------------------------------------------------------------
(* C5: the cannon. A cannon's legal moves lie on its rank or file; it       *)
(* captures an enemy piece only over exactly one live piece strictly        *)
(* between (never over none, never over two or more); it moves to an empty  *)
(* square only when every square strictly between is empty.                 *)
C5_CannonRule ==
    \A i \in LiveOfType(CANNON) : \A x \in Xs : \A y \in Ys :
        LET cx == pieces[i].position.x
            cy == pieces[i].position.y
        IN canMove(pieces[i], x, y, GM) =>
              /\ SameLine(cx, cy, x, y)
              /\ OccupiedBy(Opponent(pieces[i].color), x, y) => Between(cx, cy, x, y) = 1
              /\ ~Occupied(x, y) => Between(cx, cy, x, y) = 0

\* a cannon that may capture one enemy piece over its one mount and may not
\* capture another that stands behind two pieces, nor a third with none between
CannonFacesEnemy(i, n) ==
    \E j \in LivePieces :
        /\ pieces[j].color # pieces[i].color
        /\ SameLine(pieces[i].position.x, pieces[i].position.y,
                    pieces[j].position.x, pieces[j].position.y)
        /\ Between(pieces[i].position.x, pieces[i].position.y,
                   pieces[j].position.x, pieces[j].position.y) = n
        /\ canMove(pieces[i], pieces[j].position.x, pieces[j].position.y, GM) <=> (n = 1)

C5_Witness ==
    \E i \in LiveOfType(CANNON) :
        CannonFacesEnemy(i, 0) /\ CannonFacesEnemy(i, 1) /\ CannonFacesEnemy(i, 2)

----------------------------------------------------------------------------
(* C6: the soldier. A soldier's legal moves are the single orthogonal       *)
(* steps that advance, or, once it has crossed the midline (red y <= 4,     *)
(* black y >= 5), step sideways; never a retreat; each subject to the       *)
(* target not holding a piece of its side and to the self-check veto. In    *)
(* the starting layout the red soldier at (0,6) may move to (0,5) and may   *)
(* not move to (0,7) or (1,6).                                              *)
C6_SoldierRule ==
    /\ \A i \in LiveOfType(SOLDIER) : \A x \in Xs : \A y \in Ys :
          canMove(pieces[i], x, y, GM) <=>
              /\ SoldierStep(pieces[i], x, y)
              /\ ~OccupiedBy(pieces[i].color, x, y)
              /\ ~LeavesOwnGeneralInCheck(i, x, y)
    /\ pieces = InitialPieces =>
          /\ pieces[12].type = SOLDIER /\ pieces[12].color = RED
          /\ pieces[12].position = Position(0, 6)
          /\ canMove(pieces[12], 0, 5, GM)
          /\ ~canMove(pieces[12], 0, 7, GM)
          /\ ~canMove(pieces[12], 1, 6, GM)

\* a move has been applied; a soldier across the river may step sideways
\* and forward, not back, and a soldier on its own bank only forward
C6_Witness ==
    /\ pliesLeft = 0
    /\ \E i \in LiveOfType(SOLDIER) :
          LET p == pieces[i]
              back == IF p.color = RED THEN p.position.y + 1 ELSE p.position.y - 1
              ahead == IF p.color = RED THEN p.position.y - 1 ELSE p.position.y + 1
          IN /\ ~OwnBank(p.color, p.position.y)
             /\ canMove(p, p.position.x - 1, p.position.y, GM)
             /\ canMove(p, p.position.x, ahead, GM)
             /\ ~canMove(p, p.position.x, back, GM)
    /\ \E i \in LiveOfType(SOLDIER) :
          LET p == pieces[i]
              ahead == IF p.color = RED THEN p.position.y - 1 ELSE p.position.y + 1
          IN /\ OwnBank(p.color, p.position.y)
             /\ canMove(p, p.position.x, ahead, GM)
             /\ ~canMove(p, p.position.x - 1, p.position.y, GM)

----------------------------------------------------------------------------
(* C7: the blocked elephant. As claimed: an elephant's legal moves are      *)
(* exactly the squares two steps away on a diagonal on its own side of the  *)
(* midline whose midpoint holds no live piece.                              *)
C7_ElephantExactly ==
    \A i \in LiveOfType(ELEPHANT) : \A x \in Xs : \A y \in Ys :
        canMove(pieces[i], x, y, GM) <=> ElephantStep(pieces[i], x, y)

(* C7 as amended: an elephant's legal moves are exactly those squares that, *)
(* besides, hold no live piece of its own side and that the elephant can    *)
(* reach without leaving its own general in check.                          *)
C7_ElephantAmended ==
    \A i \in LiveOfType(ELEPHANT) : \A x \in Xs : \A y \in Ys :
        canMove(pieces[i], x, y, GM) <=>
            /\ ElephantStep(pieces[i], x, y)
            /\ ~OccupiedBy(pieces[i].color, x, y)
            /\ ~LeavesOwnGeneralInCheck(i, x, y)

\* an elephant with one diagonal blocked at its midpoint and refused, and
\* another diagonal open and accepted
C7_Witness ==
    \E i \in LiveOfType(ELEPHANT) :
        /\ \E x \in Xs : \E y \in Ys :
              /\ Abs(x - pieces[i].position.x) = 2 /\ Abs(y - pieces[i].position.y) = 2
              /\ Occupied((pieces[i].position.x + x) \div 2, (pieces[i].position.y + y) \div 2)
              /\ ~Occupied(x, y)
              /\ ~canMove(pieces[i], x, y, GM)
        /\ \E x \in Xs : \E y \in Ys : canMove(pieces[i], x, y, GM)

----------------------------------------------------------------------------
----------------------------------------------------------------------------
(* C9: a missing general. When a side's general is not alive, isInCheck for *)
(* that side is false, checkGameOver returns the other side as winner       *)
(* whoever is to move, and getValidMoves still returns a list of squares    *)
(* of the board for every piece.                                            *)
C9_MissingGeneral ==
    \A color \in PieceColors :
        ~KingAlive(color) =>
            /\ ~isInCheck(color, GM)
            /\ \A turn \in PieceColors :
                  checkGameOver(GameModel(pieces, turn)) = Opponent(color)
            /\ \A i \in DOMAIN pieces :
                  \E moves \in {getValidMoves(pieces[i], GM)} :
                     \A k \in DOMAIN moves : isValid(moves[k])

\* a general has been captured, and a piece of its side still has moves
C9_Witness ==
    \E color \in PieceColors :
        /\ ~KingAlive(color)
        /\ gameState = OVER
        /\ winner = Opponent(color)
        /\ HasLegalMove(color)

----------------------------------------------------------------------------
(* C10: invalid input yields a negative result. For a target outside the    *)
(* board, and for a piece whose id is not among the pieces of the state,    *)
(* canMove returns false and getValidMoves returns the empty list.          *)
ProbeXs == (0 - Margin)..(BOARD_WIDTH + Margin)
ProbeYs == (0 - Margin)..(BOARD_HEIGHT + Margin)

\* pieces that are not of the state: a fresh id, any type and side
ForeignPieces ==
    {[id |-> Len(pieces) + 1, type |-> type, color |-> color,
      position |-> Position(4, 4), isAlive |-> TRUE] :
        type \in PieceTypes, color \in PieceColors}

C10_OutsideBoardRefused ==
    \A i \in DOMAIN pieces : \A x \in ProbeXs : \A y \in ProbeYs :
        (x \notin Xs \/ y \notin Ys) => ~canMove(pieces[i], x, y, GM)

C10_InvalidInputNegative ==
    /\ C10_OutsideBoardRefused
    /\ \A p \in ForeignPieces :
          /\ \A x \in ProbeXs : \A y \in ProbeYs : ~canMove(p, x, y, GM)
          /\ getValidMoves(p, GM) = << >>

----------------------------------------------------------------------------
(* C11: check symmetry. In the standard starting layout built from          *)
(* INITIAL_POSITIONS isInCheck is false for red and false for black.        *)
C11_StartNotInCheck ==
    pieces = InitialPieces =>
        /\ ~isInCheck(RED, GM)
        /\ ~isInCheck(BLACK, GM)

\* the starting layout: the generals share file 4 with pieces between them,
\* and the check flag newGame stored is off
C11_Witness ==
    /\ pieces = InitialPieces
    /\ \E r \in LiveOfType(KING) : \E b \in LiveOfType(KING) :
          /\ pieces[r].color = RED /\ pieces[b].color = BLACK
          /\ pieces[r].position.x = 4 /\ pieces[b].position.x = 4
          /\ Between(4, pieces[r].position.y, 4, pieces[b].position.y) > 0
    /\ ~Facing
    /\ ~isInCheckFlag

----------------------------------------------------------------------------
(* The objects of a search: GameModel.clone and the moves applied to copies *)

\* models a search holds at once
MaxModels == 3
\* operations on the objects before the exploration stops
MaxHeapSteps == 3

\* the value of a PieceModel object: its position is a reference
PieceView(h, a) ==
    [id |-> h.pieceObjs[a].id, type |-> h.pieceObjs[a].type,
     color |-> h.pieceObjs[a].color,
     position |-> h.posObjs[h.pieceObjs[a].pos],
     isAlive |-> h.pieceObjs[a].isAlive]

\* the value of a GameModel object: its pieces are references
ModelView(h, m) ==
    [pieces |-> [k \in DOMAIN h.models[m].pieces |->
                    PieceView(h, h.models[m].pieces[k])],
     currentTurn |-> h.models[m].currentTurn,
     gameState |-> h.models[m].gameState,
     winner |-> h.models[m].winner,
     isInCheck |-> h.models[m].isInCheck]

\* a model as the rules read it
ModelGM(h, m) == GameModel(ModelView(h, m).pieces, h.models[m].currentTurn)

\* new GameModel(pieces, turn, PLAYING) over new piece and position objects
NewHeap(ps, turn) ==
    [pieceObjs |-> [k \in DOMAIN ps |->
                       [id |-> ps[k].id, type |-> ps[k].type,
                        color |-> ps[k].color, pos |-> k,
                        isAlive |-> ps[k].isAlive]],
     posObjs |-> [k \in DOMAIN ps |-> ps[k].position],
     moveTargets |-> {},
     models |-> << [pieces |-> [k \in DOMAIN ps |-> k], currentTurn |-> turn,
                    gameState |-> PLAYING, winner |-> NoWinner,
                    isInCheck |-> FALSE] >>,
     target |-> 0,
     stepsLeft |-> MaxHeapSteps]

\* a copy that holds the source's own piece objects
GameModelCloneShared(h, src) ==
    [h EXCEPT !.models = Append(@, h.models[src])]

\* GameModel.clone: piece.clone() for every piece, which clones its Position
\* and keeps its id; the scalars are copied
GameModelClone(h, src) ==
    LET n == Len(h.models[src].pieces)
        np == Len(h.pieceObjs)
        nq == Len(h.posObjs)
    IN [h EXCEPT
          !.posObjs = @ \o [k \in 1..n |->
                              h.posObjs[h.pieceObjs[h.models[src].pieces[k]].pos]],
          !.pieceObjs = @ \o [k \in 1..n |->
                              [h.pieceObjs[h.models[src].pieces[k]]
                                  EXCEPT !.pos = nq + k]],
          !.models = Append(@, [h.models[src]
                                  EXCEPT !.pieces = [k \in 1..n |-> np + k]])]

\* gameModel.pieces.find(p => p.id === id): the address, 0 for undefined
findPiece(h, m, id) ==
    IF \E k \in DOMAIN h.models[m].pieces :
          h.pieceObjs[h.models[m].pieces[k]].id = id
    THEN h.models[m].pieces[FirstIndex({k \in DOMAIN h.models[m].pieces :
                                h.pieceObjs[h.models[m].pieces[k]].id = id})]
    ELSE 0

\* GameModel.getPieceAt on a model: the address, 0 for null
getPieceAddrAt(h, m, x, y) ==
    IF \E k \in DOMAIN h.models[m].pieces :
          /\ PieceView(h, h.models[m].pieces[k]).isAlive
          /\ PieceView(h, h.models[m].pieces[k]).position = Position(x, y)
    THEN h.models[m].pieces[FirstIndex({k \in DOMAIN h.models[m].pieces :
             /\ PieceView(h, h.models[m].pieces[k]).isAlive
             /\ PieceView(h, h.models[m].pieces[k]).position = Position(x, y)})]
    ELSE 0

\* the piece of the source with the id, where the copy's was meant
findPieceOfSource(h, gameModel, gameCopy, id) == findPiece(h, gameModel, id)

\* const pieceCopy = gameCopy.pieces.find(p => p.id === piece.id)
findPieceCopy(h, gameModel, gameCopy, id) == findPiece(h, gameCopy, id)

\* the Position object of a move: the one getValidMoves made for the square,
\* made now if this is the first move to the square
TargetAddr(h, x, y) ==
    IF \E a \in h.moveTargets : h.posObjs[a] = Position(x, y)
    THEN CHOOSE a \in h.moveTargets : h.posObjs[a] = Position(x, y)
    ELSE Len(h.posObjs) + 1

WithTarget(h, x, y) ==
    IF \E a \in h.moveTargets : h.posObjs[a] = Position(x, y)
    THEN h
    ELSE [h EXCEPT !.posObjs = Append(@, Position(x, y)),
                   !.moveTargets = @ \cup {Len(h.posObjs) + 1}]

\* targetPiece.isAlive = false, for the piece at an address (0: no piece)
Killed(h, a) ==
    IF a = 0 THEN h ELSE [h EXCEPT !.pieceObjs[a].isAlive = FALSE]

\* AIWorker.executeMove: the piece with the id in this model; a piece of the
\* other colour on the target dies; piece.moveTo(move.target) takes the
\* move's own Position object
executeMove(h, m, id, targetAddr) ==
    LET piece == findPiece(h, m, id)
        targetPiece == getPieceAddrAt(h, m, h.posObjs[targetAddr].x,
                                      h.posObjs[targetAddr].y)
        dead == IF targetPiece # 0
                   /\ h.pieceObjs[targetPiece].color # h.pieceObjs[piece].color
                THEN targetPiece ELSE 0
    IN IF piece = 0 THEN h
       ELSE [Killed(h, dead) EXCEPT !.pieceObjs[piece].pos = targetAddr]

\* GameModel.switchTurn on a model
switchTurn(h, m) ==
    [h EXCEPT !.models[m].currentTurn = Opponent(@)]

\* the simulation of a move on a fresh copy, as Rules.wouldBeInCheckAfterMove
\* (a new Position), AI.wouldBeCheck, AI.evaluateMove and AIWorker.wouldBeCheck
\* (the move's Position) make it: whatever stands on the target dies
SimulateOnCopy(h, gameModel, id, targetAddr) ==
    LET c == GameModelClone(h, gameModel)
        gameCopy == Len(c.models)
        pieceCopy == findPieceCopy(c, gameModel, gameCopy, id)
        targetPieceCopy == getPieceAddrAt(c, gameCopy, c.posObjs[targetAddr].x,
                                          c.posObjs[targetAddr].y)
    IN IF pieceCopy = 0 THEN c
       ELSE [Killed(c, targetPieceCopy) EXCEPT !.pieceObjs[pieceCopy].pos = targetAddr]

\* the boards the search starts from: the generals, a red soldier across the
\* river facing a black soldier it can take
CloneBoards ==
    {<<Placed(1, KING, RED, <<4, 9, TRUE>>), Placed(2, SOLDIER, RED, <<4, 4, TRUE>>),
       Placed(3, KING, BLACK, <<3, 0, TRUE>>), Placed(4, SOLDIER, BLACK, sq)>> :
          sq \in {<<4, 3, TRUE>>, <<3, 4, TRUE>>, <<2, 3, TRUE>>}}

InitClone ==
    /\ \E ps \in CloneBoards : \E turn \in PieceColors :
          /\ pieces = ps
          /\ currentTurn = turn
          /\ heap = NewHeap(ps, turn)
    /\ gameState = PLAYING
    /\ winner = NoWinner
    /\ isInCheckFlag = FALSE
    /\ DefaultSettings
    /\ Quiet
    /\ chosen = NoCall
    /\ search = NoSearch
    /\ pliesLeft = 0
    /\ opsLeft = 0

HeapStep(h) ==
    /\ heap' = [h EXCEPT !.stepsLeft = heap.stepsLeft - 1]
    /\ UNCHANGED <<boardVars, history, settingVars, flightVars, storage,
                   chosen, search, pliesLeft, opsLeft>>

\* the legal moves of the side to move of a model, as getAllValidMoves lists them
ModelMoves(h, m) ==
    {mv \in [id : {PieceView(h, a).id : a \in {h.models[m].pieces[k] :
                                                 k \in DOMAIN h.models[m].pieces}},
             x : Xs, y : Ys] :
        \E k \in DOMAIN h.models[m].pieces :
           /\ ModelGM(h, m).pieces[k].id = mv.id
           /\ ModelGM(h, m).pieces[k].isAlive
           /\ ModelGM(h, m).pieces[k].color = h.models[m].currentTurn
           /\ canMove(ModelGM(h, m).pieces[k], mv.x, mv.y, ModelGM(h, m))}

\* const gameCopy = gameModel.clone()
HeapClone ==
    /\ heap.stepsLeft > 0
    /\ Len(heap.models) < MaxModels
    /\ \E src \in DOMAIN heap.models :
          HeapStep([GameModelClone(heap, src) EXCEPT !.target = 0])

\* executeMove(move, gameCopy); gameCopy.switchTurn(), on a copy the search made
HeapExecuteMove ==
    /\ heap.stepsLeft > 0
    /\ \E m \in DOMAIN heap.models : \E mv \in ModelMoves(heap, m) :
          /\ m >= 2
          /\ HeapStep([switchTurn(executeMove(WithTarget(heap, mv.x, mv.y), m, mv.id,
                                              TargetAddr(heap, mv.x, mv.y)), m)
                          EXCEPT !.target = m])

\* Rules.wouldBeInCheckAfterMove(piece, x, y, gameModel), as canMove calls it
\* for a square the piece could reach
HeapWouldBeInCheckAfterMove ==
    /\ heap.stepsLeft > 0
    /\ Len(heap.models) < MaxModels
    /\ \E gameModel \in DOMAIN heap.models : \E mv \in ModelMoves(heap, gameModel) :
          HeapStep([SimulateOnCopy([heap EXCEPT !.posObjs = Append(@, Position(mv.x, mv.y))],
                                   gameModel, mv.id, Len(heap.posObjs) + 1)
                       EXCEPT !.target = Len(heap.models) + 1])

\* wouldBeCheck(move, gameModel) and evaluateMove(move, gameModel), for a
\* move of the list
HeapWouldBeCheck ==
    /\ heap.stepsLeft > 0
    /\ Len(heap.models) < MaxModels
    /\ \E gameModel \in DOMAIN heap.models : \E mv \in ModelMoves(heap, gameModel) :
          HeapStep([SimulateOnCopy(WithTarget(heap, mv.x, mv.y), gameModel, mv.id,
                                   TargetAddr(heap, mv.x, mv.y))
                       EXCEPT !.target = Len(heap.models) + 1])

NextClone ==
    \/ HeapClone
    \/ HeapExecuteMove
    \/ HeapWouldBeInCheckAfterMove
    \/ HeapWouldBeCheck

CloneSpec == InitClone /\ [][NextClone]_vars

(* C12: clone isolation. A step that applies a move to one copy (the taken *)
(* piece dead, the mover on the target, the side to move switched) leaves  *)
(* the position and liveness of every piece and the side to move of the    *)
(* original and of every other copy as they were, and every copy lists the *)
(* pieces of the original under the same ids.                               *)
C12_CloneIsolation ==
    [][/\ \A m \in DOMAIN heap.models :
             m # heap'.target =>
                /\ ModelView(heap', m).pieces = ModelView(heap, m).pieces
                /\ ModelView(heap', m).currentTurn = ModelView(heap, m).currentTurn
       /\ \A m \in DOMAIN heap'.models :
             [k \in DOMAIN heap'.models[m].pieces |-> ModelView(heap', m).pieces[k].id]
                = [k \in DOMAIN pieces |-> pieces[k].id]]_vars

\* a copy of a copy that took the black soldier and gave the move to the
\* other side, while the original and the first copy still show the soldier
C12_Witness ==
    /\ Len(heap.models) = 3
    /\ heap.target = 3
    /\ ModelView(heap, 1).pieces = pieces
    /\ ModelView(heap, 2).pieces = pieces
    /\ ModelView(heap, 3).pieces # pieces
    /\ ~ModelView(heap, 3).pieces[4].isAlive
    /\ ModelView(heap, 3).pieces[2].position = pieces[4].position
    /\ ModelView(heap, 3).currentTurn # ModelView(heap, 1).currentTurn

(* C13: engine purity. No step the rule queries and the move choice make   *)
(* on the objects of the state they were given changes that state: the     *)
(* position and liveness of its pieces, its side to move, its check flag   *)
(* and its outcome stay what they were.                                     *)
C13_PassedInUnchanged ==
    [][ModelView(heap', 1) = ModelView(heap, 1)]_vars

\* a simulated capture ran on a copy of the passed-in state, whose soldier
\* still stands
C13_Witness ==
    /\ Len(heap.models) >= 2
    /\ heap.target = 2
    /\ ~ModelView(heap, 2).pieces[4].isAlive
    /\ ModelView(heap, 2).currentTurn = ModelView(heap, 1).currentTurn
    /\ ModelView(heap, 1).pieces[4].isAlive
    /\ ModelView(heap, 1) =
          [pieces |-> pieces, currentTurn |-> currentTurn, gameState |-> gameState,
           winner |-> winner, isInCheck |-> isInCheckFlag]
----------------------------------------------------------------------------
(* Serialization: GameModel.toJSON, GameModel.fromJSON, SaveLoad *)

\* the canonical GameModel, as a value
Model ==
    [pieces |-> pieces, currentTurn |-> currentTurn, gameState |-> gameState,
     winner |-> winner, isInCheck |-> isInCheckFlag,
     selectedPieceId |-> selection.selectedPieceId,
     validMoves |-> selection.validMoves, history |-> history,
     gameMode |-> gameMode, aiDifficulty |-> aiDifficulty,
     aiPlayerColor |-> aiPlayerColor]

\* PieceModel.toJSON: the position becomes a plain object
PieceToJSON(piece) ==
    [id |-> piece.id, type |-> piece.type, color |-> piece.color,
     position |-> [x |-> piece.position.x, y |-> piece.position.y],
     isAlive |-> piece.isAlive]

\* PieceModel.fromJSON: the arguments of the constructor in its order
PieceFromJSON(data) ==
    [id |-> data.id, type |-> data.type, color |-> data.color,
     position |-> Position(data.position.x, data.position.y),
     isAlive |-> data.isAlive]

\* a snapshot of the history holds no history itself (GameModel.clone)
SnapshotToJSON(m) ==
    [pieces |-> [k \in DOMAIN m.pieces |-> PieceToJSON(m.pieces[k])],
     currentTurn |-> m.currentTurn, gameState |-> m.gameState,
     winner |-> m.winner, isInCheck |-> m.isInCheck,
     selectedPieceId |-> m.selectedPieceId, validMoves |-> m.validMoves,
     history |-> << >>,
     gameMode |-> m.gameMode, aiDifficulty |-> m.aiDifficulty,
     aiPlayerColor |-> m.aiPlayerColor]

\* a JSON object written without the history
toJSONNoHistory(m) ==
    [pieces |-> [k \in DOMAIN m.pieces |-> PieceToJSON(m.pieces[k])],
     currentTurn |-> m.currentTurn, gameState |-> m.gameState,
     winner |-> m.winner, isInCheck |-> m.isInCheck,
     selectedPieceId |-> m.selectedPieceId, validMoves |-> m.validMoves,
     gameMode |-> m.gameMode, aiDifficulty |-> m.aiDifficulty,
     aiPlayerColor |-> m.aiPlayerColor]

\* GameModel.toJSON
toJSON(m) ==
    [pieces |-> [k \in DOMAIN m.pieces |-> PieceToJSON(m.pieces[k])],
     currentTurn |-> m.currentTurn, gameState |-> m.gameState,
     winner |-> m.winner, isInCheck |-> m.isInCheck,
     selectedPieceId |-> m.selectedPieceId, validMoves |-> m.validMoves,
     history |-> [k \in DOMAIN m.history |-> SnapshotToJSON(m.history[k])],
     gameMode |-> m.gameMode, aiDifficulty |-> m.aiDifficulty,
     aiPlayerColor |-> m.aiPlayerColor]

\* if (data.f), for a field of text: it is there, not null and not empty
Truthy(data, f) ==
    /\ f \in DOMAIN data
    /\ data[f] # NoWinner
    /\ data[f] # ""

\* GameModel.fromJSON of a snapshot: history, mode, difficulty and colour
\* keep the constructor's value unless the data holds one
SnapshotFromJSON(data) ==
    [pieces |-> [k \in DOMAIN data.pieces |-> PieceFromJSON(data.pieces[k])],
     currentTurn |-> data.currentTurn, gameState |-> data.gameState,
     winner |-> data.winner, isInCheck |-> data.isInCheck,
     selectedPieceId |-> data.selectedPieceId, validMoves |-> data.validMoves,
     history |-> << >>,
     gameMode |-> IF Truthy(data, "gameMode") THEN data.gameMode ELSE PVP,
     aiDifficulty |-> IF Truthy(data, "aiDifficulty") THEN data.aiDifficulty
                      ELSE MEDIUM,
     aiPlayerColor |-> IF Truthy(data, "aiPlayerColor") THEN data.aiPlayerColor
                       ELSE BLACK]

\* GameModel.fromJSON
fromJSON(data) ==
    [SnapshotFromJSON(data) EXCEPT
        !.history = IF "history" \in DOMAIN data
                    THEN [k \in DOMAIN data.history |->
                             SnapshotFromJSON(data.history[k])]
                    ELSE << >>]

\* JSON.stringify and JSON.parse of a value built from objects, arrays, text,
\* whole numbers, booleans and null: the text stands for the value
JSONstringify(data) == [text |-> data]
JSONparse(saveData) == saveData.text

\* SaveLoad.getStorageKey
getStorageKey(m) ==
    IF m.gameMode = PVE
    THEN <<"chinese-chess-save", m.gameMode, m.aiDifficulty, m.aiPlayerColor>>
    ELSE <<"chinese-chess-save", m.gameMode>>

\* localStorage.getItem(key) !== null
hasSavedGame(store, m) ==
    \E k \in DOMAIN store : store[k].key = getStorageKey(m)

\* localStorage.setItem(key, text)
setItem(store, key, text) ==
    IF \E k \in DOMAIN store : store[k].key = key
    THEN [k \in DOMAIN store |->
             IF store[k].key = key THEN [key |-> key, text |-> text]
             ELSE store[k]]
    ELSE Append(store, [key |-> key, text |-> text])

\* localStorage.getItem(key), for a key that is there
getItem(store, key) ==
    store[FirstIndex({k \in DOMAIN store : store[k].key = key})].text

\* SaveLoad.save
save(store, m) == setItem(store, getStorageKey(m), JSONstringify(toJSON(m)))

\* SaveLoad.load, where a game is saved under the key of the model
load(store, m) == fromJSON(JSONparse(getItem(store, getStorageKey(m))))
----------------------------------------------------------------------------
(* AI: the move choice Game awaits *)

\* AI_CONFIG.EVALUATION_WEIGHTS
PIECE_VALUE == 100
CHECK_VALUE == 200
MOBILITY_VALUE == 10

\* a move of a list: the piece, by its place in pieces, and the target
MoveOf(k, pos) == [piece |-> k, x |-> pos.x, y |-> pos.y]

\* the array a map or a loop builds, element by element
Array(f) == f \o << >>

\* the sum of f[1] .. f[k]
RECURSIVE SumTo(_, _)
SumTo(f, k) == IF k = 0 THEN 0 ELSE f[k] + SumTo(f, k - 1)

\* the legal moves of every live piece of the colour, from piece k on:
\* pieces in their order, the targets of each in the order of getValidMoves
RECURSIVE MovesFrom(_, _, _)
MovesFrom(gm, color, k) ==
    IF k > Len(gm.pieces) THEN << >>
    ELSE (IF gm.pieces[k].isAlive /\ gm.pieces[k].color = color
          THEN LET Of(moves) == [j \in 1..Len(moves) |-> MoveOf(k, moves[j])]
               IN Of(getValidMoves(gm.pieces[k], gm))
          ELSE << >>) \o MovesFrom(gm, color, k + 1)

\* getAllValidMoves listing the moves of the pieces of the other colour
getAllValidMovesOtherSide(gm, color) == MovesFrom(gm, Opponent(color), 1)

\* AI.getAllValidMoves (color is gameModel.aiPlayerColor),
\* AIWorker.getAllValidMoves and getAllValidMovesForCurrentPlayer (color is
\* gameModel.currentTurn)
getAllValidMoves(gm, color) == MovesFrom(gm, color, 1)

\* chooseRandomMove: Math.floor(Math.random() * length) is any index
chooseRandomMove(validMoves) == {validMoves[i] : i \in DOMAIN validMoves}

\* wouldBeCheck reading the check of the mover's own side
wouldBeCheckOwnSide(move, gm) ==
    IF \A i \in DOMAIN gm.pieces : gm.pieces[i].id # gm.pieces[move.piece].id
    THEN FALSE
    ELSE isInCheck(gm.currentTurn,
                   MovedCopy(gm.pieces[move.piece], move.x, move.y, gm))

\* AI.wouldBeCheck, AIWorker.wouldBeCheck: on a copy whatever stands on the
\* target dies, the piece takes the target, and the side that is not to
\* move in the copy is asked for check
wouldBeCheck(move, gm) ==
    IF \A i \in DOMAIN gm.pieces : gm.pieces[i].id # gm.pieces[move.piece].id
    THEN FALSE
    ELSE isInCheck(Opponent(gm.currentTurn),
                   MovedCopy(gm.pieces[move.piece], move.x, move.y, gm))

\* the moves of the list that land on a live piece
captureMoves(validMoves, gm) ==
    LET Captures(move) == getPieceAt(gm, move.x, move.y) # NoPiece
    IN SelectSeq(validMoves, Captures)

\* the moves of the list that leave the other side in check
checkMoves(validMoves, gm) ==
    LET Checks(move) == wouldBeCheck(move, gm)
    IN SelectSeq(validMoves, Checks)

\* AI.chooseMediumMove, AIWorker.chooseMediumMove: the moves it can return
chooseMediumMove(validMoves, gm) ==
    LET Captured(captures) ==
            IF Len(captures) > 0 THEN chooseRandomMove(captures)
            ELSE chooseRandomMove(validMoves)
        Checked(checks) ==
            IF Len(checks) > 0 THEN chooseRandomMove(checks)
            ELSE Captured(captureMoves(validMoves, gm))
    IN Checked(checkMoves(validMoves, gm))

\* AI.getPieceValue, AIWorker.getPieceValue
getPieceValue(type) ==
    CASE type = KING -> 1000
      [] type = ADVISOR -> 100
      [] type = ELEPHANT -> 150
      [] type = HORSE -> 300
      [] type = CHARIOT -> 500
      [] type = CANNON -> 250
      [] type = SOLDIER -> 50
      [] OTHER -> 0

\* the number of legal moves of the live pieces of a colour
mobility(gm, color) ==
    SumTo([k \in DOMAIN gm.pieces |->
              IF gm.pieces[k].isAlive /\ gm.pieces[k].color = color
              THEN Len(getValidMoves(gm.pieces[k], gm)) ELSE 0],
          Len(gm.pieces))

\* AI.evaluateMove
evaluateMove(move, gm, aiColor) ==
    LET gameCopy == MovedCopy(gm.pieces[move.piece], move.x, move.y, gm)
        targetPieceCopy == getPieceAt(gm, move.x, move.y)
    IN (IF targetPieceCopy # NoPiece
        THEN getPieceValue(targetPieceCopy.type) * PIECE_VALUE ELSE 0)
       + (IF isInCheck(Opponent(gameCopy.currentTurn), gameCopy)
          THEN CHECK_VALUE ELSE 0)
       + mobility(gameCopy, aiColor) * MOBILITY_VALUE

\* AI.chooseHardMove: the first move that no other move outscores
chooseHardMove(validMoves, gm, aiColor) ==
    LET Best(score) ==
            validMoves[CHOOSE i \in DOMAIN validMoves :
                          /\ \A j \in DOMAIN validMoves : score[j] <= score[i]
                          /\ \A j \in 1..(i - 1) : score[j] < score[i]]
    IN Best(Array([i \in DOMAIN validMoves |->
                      evaluateMove(validMoves[i], gm, aiColor)]))

\* AI.makeMove(gameModel): the moves the promise can resolve to, NoMove for null
AImakeMove(gm, aiColor, difficulty) ==
    IF gm.currentTurn # aiColor THEN {NoMove}
    ELSE LET Choose(validMoves) ==
                 IF Len(validMoves) = 0 THEN {NoMove}
                 ELSE CASE difficulty = EASY -> chooseRandomMove(validMoves)
                        [] difficulty = MEDIUM -> chooseMediumMove(validMoves, gm)
                        [] difficulty = HARD ->
                             {chooseHardMove(validMoves, gm, aiColor)}
         IN Choose(getAllValidMoves(gm, aiColor))
----------------------------------------------------------------------------
(* AIWorker: the search of the hard tier *)

\* Infinity, above every score evaluatePosition can return
Infinity == 10000000
\* iterativeDeepening: maxDepth, the forced-win threshold, the candidates of
\* selectMoveWithRandomness
maxDepth == 6
ForcedWin == 10000
TopCandidates == 5

\* what Math.random() - 0.5 makes of moves of equal priority: their order
\* kept, or turned round
TieOrders == {"kept", "reversed"}

Reverse(s) == [i \in 1..Len(s) |-> s[Len(s) + 1 - i]]

\* the tables of AIWorker.getPositionValue: a row for each y of 0..8, a
\* column for each x
positionValues(type) ==
    CASE type = KING ->
         <<<<0, 0, 0, 0, 0, 0, 0, 0, 0>>,
           <<0, 0, 0, 0, 0, 0, 0, 0, 0>>,
           <<0, 0, 0, 0, 0, 0, 0, 0, 0>>,
           <<0, 0, 0, 0, 0, 0, 0, 0, 0>>,
           <<0, 0, 0, 0, 0, 0, 0, 0, 0>>,
           <<0, 0, 0, 10, 10, 10, 0, 0, 0>>,
           <<0, 0, 0, 10, 20, 10, 0, 0, 0>>,
           <<0, 0, 0, 10, 10, 10, 0, 0, 0>>,
           <<0, 0, 0, 0, 0, 0, 0, 0, 0>>>>
      [] type = ADVISOR ->
         <<<<0, 0, 0, 0, 0, 0, 0, 0, 0>>,
           <<0, 0, 0, 0, 0, 0, 0, 0, 0>>,
           <<0, 0, 0, 0, 0, 0, 0, 0, 0>>,
           <<0, 0, 0, 0, 0, 0, 0, 0, 0>>,
           <<0, 0, 0, 0, 0, 0, 0, 0, 0>>,
           <<0, 0, 0, 5, 0, 5, 0, 0, 0>>,
           <<0, 0, 0, 0, 15, 0, 0, 0, 0>>,
           <<0, 0, 0, 5, 0, 5, 0, 0, 0>>,
           <<0, 0, 0, 0, 0, 0, 0, 0, 0>>>>
      [] type = ELEPHANT ->
         <<<<0, 0, 0, 0, 0, 0, 0, 0, 0>>,
           <<0, 0, 0, 0, 0, 0, 0, 0, 0>>,
           <<0, 0, 0, 0, 0, 0, 0, 0, 0>>,
           <<0, 0, 0, 0, 0, 0, 0, 0, 0>>,
           <<0, 0, 0, 0, 0, 0, 0, 0, 0>>,
           <<0, 0, 10, 0, 0, 0, 10, 0, 0>>,
           <<0, 0, 0, 0, 0, 0, 0, 0, 0>>,
           <<0, 20, 0, 0, 0, 0, 0, 20, 0>>,
           <<0, 0, 0, 0, 30, 0, 0, 0, 0>>>>
      [] type = HORSE ->
         <<<<0, 5, 10, 15, 20, 15, 10, 5, 0>>,
           <<5, 15, 25, 30, 35, 30, 25, 15, 5>>,
           <<10, 25, 35, 40, 45, 40, 35, 25, 10>>,
           <<15, 30, 40, 45, 50, 45, 40, 30, 15>>,
           <<20, 35, 45, 50, 55, 50, 45, 35, 20>>,
           <<15, 30, 40, 45, 50, 45, 40, 30, 15>>,
           <<10, 25, 35, 40, 45, 40, 35, 25, 10>>,
           <<5, 15, 25, 30, 35, 30, 25, 15, 5>>,
           <<0, 5, 10, 15, 20, 15, 10, 5, 0>>>>
      [] type = CHARIOT ->
         <<<<5, 5, 5, 5, 5, 5, 5, 5, 5>>,
           <<5, 10, 10, 10, 10, 10, 10, 10, 5>>,
           <<5, 10, 15, 15, 15, 15, 15, 10, 5>>,
           <<5, 10, 15, 20, 20, 20, 15, 10, 5>>,
           <<5, 10, 15, 20, 25, 20, 15, 10, 5>>,
           <<5, 10, 15, 20, 20, 20, 15, 10, 5>>,
           <<5, 10, 15, 15, 15, 15, 15, 10, 5>>,
           <<5, 10, 10, 10, 10, 10, 10, 10, 5>>,
           <<5, 5, 5, 5, 5, 5, 5, 5, 5>>>>
      [] type = CANNON ->
         <<<<2, 2, 2, 2, 2, 2, 2, 2, 2>>,
           <<2, 5, 5, 5, 5, 5, 5, 5, 2>>,
           <<2, 5, 10, 10, 10, 10, 10, 5, 2>>,
           <<2, 5, 10, 15, 15, 15, 10, 5, 2>>,
           <<2, 5, 10, 15, 20, 15, 10, 5, 2>>,
           <<2, 5, 10, 15, 15, 15, 10, 5, 2>>,
           <<2, 5, 10, 10, 10, 10, 10, 5, 2>>,
           <<2, 5, 5, 5, 5, 5, 5, 5, 2>>,
           <<2, 2, 2, 2, 2, 2, 2, 2, 2>>>>
      [] type = SOLDIER ->
         <<<<0, 0, 0, 0, 0, 0, 0, 0, 0>>,
           <<10, 10, 10, 10, 10, 10, 10, 10, 10>>,
           <<15, 15, 15, 15, 15, 15, 15, 15, 15>>,
           <<20, 20, 20, 20, 20, 20, 20, 20, 20>>,
           <<30, 30, 30, 30, 30, 30, 30, 30, 30>>,
           <<50, 50, 50, 50, 50, 50, 50, 50, 50>>,
           <<70, 70, 70, 70, 70, 70, 70, 70, 70>>,
           <<100, 100, 100, 100, 100, 100, 100, 100, 100>>,
           <<200, 200, 200, 200, 200, 200, 200, 200, 200>>>>

\* AIWorker.getPositionValue: the row is y for red and 8 - y for black; a
\* row the table does not have is worth 0
getPositionValue(piece) ==
    LET y == IF piece.color = RED THEN piece.position.y ELSE 8 - piece.position.y
    IN IF y >= 0 /\ y <= 8 /\ piece.position.x >= 0 /\ piece.position.x <= 8
       THEN positionValues(piece.type)[y + 1][piece.position.x + 1]
       ELSE 0

\* Rules.getValidMoves of every piece of the model, dead pieces having none
RECURSIVE ValidMovesFrom(_, _)
ValidMovesFrom(gm, k) ==
    IF k > Len(gm.pieces) THEN << >>
    ELSE <<IF gm.pieces[k].isAlive THEN getValidMoves(gm.pieces[k], gm) ELSE << >> >>
         \o ValidMovesFrom(gm, k + 1)

\* whether the moves of a piece hold the square
Reaches(moves, x, y) == \E j \in DOMAIN moves : moves[j].x = x /\ moves[j].y = y

\* AIWorker.getSafetyValue, over the legal moves vm of every piece
getSafetyValue(k, gm, vm) ==
    SumTo([o \in DOMAIN gm.pieces |->
              IF /\ gm.pieces[o].isAlive
                 /\ gm.pieces[o].color = Opponent(gm.pieces[k].color)
                 /\ Reaches(vm[o], gm.pieces[k].position.x, gm.pieces[k].position.y)
                 /\ getPieceValue(gm.pieces[o].type) < getPieceValue(gm.pieces[k].type)
              THEN 0 - ((getPieceValue(gm.pieces[k].type)
                         - getPieceValue(gm.pieces[o].type)) \div 2)
              ELSE 0],
          Len(gm.pieces))

\* AIWorker.evaluateControlArea
evaluateControlArea(gm, color, vm) ==
    SumTo([k \in DOMAIN gm.pieces |->
              IF gm.pieces[k].isAlive /\ gm.pieces[k].color = color
              THEN Len(vm[k])
                   + 2 * Cardinality({j \in DOMAIN vm[k] :
                            /\ vm[k][j].x >= 3 /\ vm[k][j].x <= 5
                            /\ vm[k][j].y >= 3 /\ vm[k][j].y <= 5})
              ELSE 0],
          Len(gm.pieces))

\* AIWorker.evaluateKingSafety
evaluateKingSafety(gm, color, vm) ==
    LET king == FindKing(gm, color)
        kingArea == <<Position(king.position.x - 1, king.position.y),
                      Position(king.position.x + 1, king.position.y),
                      Position(king.position.x, king.position.y - 1),
                      Position(king.position.x, king.position.y + 1)>>
        attackedSquares ==
            SumTo([s \in 1..4 |->
                     IF /\ kingArea[s].x >= 0 /\ kingArea[s].x <= 8
                        /\ kingArea[s].y >= 0 /\ kingArea[s].y <= 8
                     THEN Cardinality({o \in DOMAIN gm.pieces :
                              /\ gm.pieces[o].isAlive
                              /\ gm.pieces[o].color = Opponent(color)
                              /\ Reaches(vm[o], kingArea[s].x, kingArea[s].y)})
                     ELSE 0], 4)
    IN IF king = NoPiece THEN 0 - 1000
       ELSE (IF isInCheck(color, gm) THEN 0 - 100 ELSE 0) - attackedSquares * 20

\* AIWorker.evaluatePosition over the legal moves vm of every piece
evaluateWith(gm, aiColor, vm) ==
    LET side(k) == IF gm.pieces[k].color = aiColor THEN 1 ELSE 0 - 1
        material ==
            SumTo([k \in DOMAIN gm.pieces |->
                      IF gm.pieces[k].isAlive
                      THEN side(k) * (getPieceValue(gm.pieces[k].type)
                                      + getPositionValue(gm.pieces[k])
                                      + getSafetyValue(k, gm, vm))
                      ELSE 0],
                  Len(gm.pieces))
        moves(color) ==
            SumTo([k \in DOMAIN gm.pieces |->
                      IF gm.pieces[k].isAlive /\ gm.pieces[k].color = color
                      THEN Len(vm[k]) ELSE 0],
                  Len(gm.pieces))
    IN material
       + (IF isInCheck(Opponent(aiColor), gm) THEN 500 ELSE 0)
       - (IF isInCheck(aiColor, gm) THEN 500 ELSE 0)
       + (moves(aiColor) - moves(Opponent(aiColor))) * 10
       + (evaluateControlArea(gm, aiColor, vm)
          - evaluateControlArea(gm, Opponent(aiColor), vm)) * 20
       + evaluateKingSafety(gm, aiColor, vm) * 300
       - evaluateKingSafety(gm, Opponent(aiColor), vm) * 300

\* AIWorker.evaluatePosition
evaluatePosition(gm, aiColor) == evaluateWith(gm, aiColor, ValidMovesFrom(gm, 1))

\* the priority sortMoves gives a move: captures first, then checks
priority(move, gm) ==
    (IF getPieceAt(gm, move.x, move.y) # NoPiece THEN 2 ELSE 0)
    + (IF wouldBeCheck(move, gm) THEN 1 ELSE 0)

\* AIWorker.sortMoves: by priority, moves of equal priority in the order tie
sortMoves(moves, gm, tie) ==
    LET idx == [i \in DOMAIN moves |-> i]
        Tier(p, r) == LET Has(i) == p[i] = r
                          t == SelectSeq(idx, Has)
                      IN IF tie = "kept" THEN t ELSE Reverse(t)
        Order(p) == Tier(p, 3) \o Tier(p, 2) \o Tier(p, 1) \o Tier(p, 0)
        Sorted(order) == Array([i \in DOMAIN moves |-> moves[order[i]]])
    IN Sorted(Order(Array([i \in DOMAIN moves |-> priority(moves[i], gm)])))

\* AIWorker.executeMove on a copy, then gameCopy.switchTurn(): a piece of the
\* other colour on the target dies, the piece takes the target
AfterExecuteMove(move, gm) ==
    LET piece == gm.pieces[move.piece]
        S == {i \in DOMAIN gm.pieces :
                  /\ gm.pieces[i].isAlive
                  /\ gm.pieces[i].position.x = move.x
                  /\ gm.pieces[i].position.y = move.y}
        killed == IF S # {} /\ gm.pieces[FirstIndex(S)].color # piece.color
                  THEN [gm.pieces EXCEPT ![FirstIndex(S)].isAlive = FALSE]
                  ELSE gm.pieces
    IN [pieces |-> [killed EXCEPT ![move.piece].position = Position(move.x, move.y)],
        currentTurn |-> Opponent(gm.currentTurn)]

\* AIWorker.minimax and its two loops over the sorted moves, from move i on;
\* next to the score, the number of positions evaluatePosition was asked
\* about on the way
RECURSIVE minimax(_, _, _, _, _, _, _)
RECURSIVE maxLoop(_, _, _, _, _, _, _, _, _)
RECURSIVE minLoop(_, _, _, _, _, _, _, _, _)

\* the loop of the maximizing player leaving at the first score above alpha
maxLoopFirstRise(gm, moves, i, depth, alpha, beta, maxScore, aiColor, tie) ==
    IF i > Len(moves) THEN maxScore
    ELSE LET Scored(r) ==
                 LET best == [score |-> Max(maxScore.score, r.score),
                              evaluated |-> maxScore.evaluated + r.evaluated]
                 IN IF alpha < r.score THEN best
                    ELSE maxLoop(gm, moves, i + 1, depth, Max(alpha, r.score),
                                 beta, best, aiColor, tie)
         IN Scored(minimax(AfterExecuteMove(moves[i], gm), depth - 1,
                           alpha, beta, FALSE, aiColor, tie))

maxLoop(gm, moves, i, depth, alpha, beta, maxScore, aiColor, tie) ==
    IF i > Len(moves) THEN maxScore
    ELSE LET Scored(r) ==
                 LET best == [score |-> Max(maxScore.score, r.score),
                              evaluated |-> maxScore.evaluated + r.evaluated]
                 IN IF beta <= Max(alpha, r.score) THEN best
                    ELSE maxLoop(gm, moves, i + 1, depth, Max(alpha, r.score),
                                 beta, best, aiColor, tie)
         IN Scored(minimax(AfterExecuteMove(moves[i], gm), depth - 1,
                           alpha, beta, FALSE, aiColor, tie))

minLoop(gm, moves, i, depth, alpha, beta, minScore, aiColor, tie) ==
    IF i > Len(moves) THEN minScore
    ELSE LET Scored(r) ==
                 LET best == [score |-> Min(minScore.score, r.score),
                              evaluated |-> minScore.evaluated + r.evaluated]
                 IN IF Min(beta, r.score) <= alpha THEN best
                    ELSE minLoop(gm, moves, i + 1, depth, alpha, Min(beta, r.score),
                                 best, aiColor, tie)
         IN Scored(minimax(AfterExecuteMove(moves[i], gm), depth - 1,
                           alpha, beta, TRUE, aiColor, tie))

minimax(gm, depth, alpha, beta, isMaximizingPlayer, aiColor, tie) ==
    LET Loop(sortedMoves) ==
            IF isMaximizingPlayer
            THEN maxLoop(gm, sortedMoves, 1, depth, alpha, beta,
                         [score |-> 0 - Infinity, evaluated |-> 0], aiColor, tie)
            ELSE minLoop(gm, sortedMoves, 1, depth, alpha, beta,
                         [score |-> Infinity, evaluated |-> 0], aiColor, tie)
        Search(validMoves) ==
            IF depth = 0 \/ Len(validMoves) = 0
            THEN [score |-> evaluatePosition(gm, aiColor), evaluated |-> 1]
            ELSE Loop(sortMoves(validMoves, gm, tie))
    IN Search(getAllValidMoves(gm, gm.currentTurn))

\* scoredMoves.sort((a, b) => b.score - a.score): by score, the higher
\* first, moves of equal score in the order they had
sortByScore(scoredMoves) ==
    LET Before(i, j) == \/ scoredMoves[i].score > scoredMoves[j].score
                        \/ (scoredMoves[i].score = scoredMoves[j].score /\ i < j)
        place == [i \in DOMAIN scoredMoves |->
                     1 + Cardinality({j \in DOMAIN scoredMoves : Before(j, i)})]
    IN Array([r \in DOMAIN scoredMoves |->
                 scoredMoves[CHOOSE i \in DOMAIN scoredMoves : place[i] = r]])

\* one pass of the deepening loop over the scored moves: the first
\* `left` evaluations run before the time limit is passed, the others return
\* at once and keep the score they had
scoreAt(gm, scoredMoves, depth, left, aiColor, tie) ==
    Array([i \in DOMAIN scoredMoves |->
              IF i <= left
              THEN [move |-> scoredMoves[i].move,
                    score |-> minimax(AfterExecuteMove(scoredMoves[i].move, gm),
                                      depth - 1, 0 - Infinity, Infinity, FALSE,
                                      aiColor, tie).score]
              ELSE scoredMoves[i]])

\* the deepening loop of iterativeDeepening from a depth on, `left` being
\* the evaluations that still run before the time limit is passed
RECURSIVE deepen(_, _, _, _, _, _)
deepen(gm, scoredMoves, depth, left, aiColor, tie) ==
    IF depth > maxDepth \/ left <= 0 THEN scoredMoves
    ELSE LET Deeper(sorted) ==
                 IF Abs(sorted[1].score) > ForcedWin THEN sorted
                 ELSE deepen(gm, sorted, depth + 1, left - Len(scoredMoves),
                             aiColor, tie)
         IN Deeper(sortByScore(scoreAt(gm, scoredMoves, depth, left, aiColor, tie)))

\* AIWorker.selectMoveWithRandomness: the best, or with the coin of 5% any
\* of the first candidates
selectMoveWithRandomness(scoredMoves, coin) ==
    LET candidates == 1..Min(TopCandidates, Len(scoredMoves))
        Pick(sorted) == IF coin /\ Cardinality(candidates) > 1
                        THEN {sorted[i].move : i \in candidates}
                        ELSE {sorted[1].move}
    IN Pick(sortByScore(scoredMoves))

\* AIWorker.iterativeDeepening: the moves it can return, each with the coin
\* that was thrown for it
iterativeDeepening(gm, validMoves, aiColor, tie, budget) ==
    LET Scored(sortedMoves) ==
            Array([i \in DOMAIN sortedMoves |->
                      [move |-> sortedMoves[i], score |-> 0 - Infinity]])
        Selected(searched) ==
            UNION {{[move |-> m, coin |-> coin] :
                       m \in selectMoveWithRandomness(searched, coin)} :
                   coin \in BOOLEAN}
    IN Selected(deepen(gm, Scored(sortMoves(validMoves, gm, tie)), 1, budget,
                       aiColor, tie))

\* the model GameModel.fromJSON builds from the posted data, as the rules
\* read it
Posted(data) == GameModel(fromJSON(data).pieces, fromJSON(data).currentTurn)

\* a result for which no coin was thrown
NoCoin(moves) == {[move |-> m, coin |-> FALSE] : m \in moves}

\* AIWorker.makeMove(gameModelData, aiColor, difficulty): the moves the
\* promise can resolve to, NoMove for null, over the listed legal moves
WorkerMakeMove(gm, validMoves, aiColor, difficulty, tie, budget) ==
    IF gm.currentTurn # aiColor THEN NoCoin({NoMove})
    ELSE IF Len(validMoves) = 0 THEN NoCoin({NoMove})
    ELSE CASE difficulty = EASY -> NoCoin(chooseRandomMove(validMoves))
           [] difficulty = MEDIUM -> NoCoin(chooseMediumMove(validMoves, gm))
           [] difficulty = HARD ->
                iterativeDeepening(gm, validMoves, aiColor, tie, budget)
----------------------------------------------------------------------------
(* The calls of the move choice *)

\* how far past a depth of the deepening loop the explored time limits fall
CutoffMargin == 1

\* how many men a position may hold for a search to be explored that no
\* time limit cuts
MaxFullSearchPieces == 3

\* the positions the engines are asked about: a chariot that can check or
\* take; soldiers that can take each other; a black general with no move;
\* a soldier between the generals
AIBoards ==
    {<<Placed(1, KING, RED, <<3, 9, TRUE>>), Placed(2, CHARIOT, RED, <<0, 5, TRUE>>),
       Placed(3, KING, BLACK, <<4, 0, TRUE>>), Placed(4, SOLDIER, BLACK, <<0, 3, TRUE>>)>>,
     <<Placed(1, KING, RED, <<3, 9, TRUE>>), Placed(2, SOLDIER, RED, <<0, 4, TRUE>>),
       Placed(3, KING, BLACK, <<4, 0, TRUE>>), Placed(4, SOLDIER, BLACK, <<0, 3, TRUE>>),
       Placed(5, SOLDIER, BLACK, <<1, 4, TRUE>>)>>,
     <<Placed(1, KING, RED, <<4, 9, TRUE>>), Placed(2, SOLDIER, RED, <<4, 6, TRUE>>),
       Placed(3, SOLDIER, RED, <<3, 1, TRUE>>), Placed(4, SOLDIER, RED, <<5, 1, TRUE>>),
       Placed(5, KING, BLACK, <<4, 0, TRUE>>)>>,
     <<Placed(1, KING, RED, <<4, 9, TRUE>>), Placed(2, SOLDIER, RED, <<4, 6, TRUE>>),
       Placed(3, KING, BLACK, <<4, 1, TRUE>>)>>}

InitAI ==
    /\ pieces \in AIBoards
    /\ currentTurn \in PieceColors
    /\ gameState = PLAYING
    /\ winner = NoWinner
    /\ isInCheckFlag = isInCheck(currentTurn, GM)
    /\ gameMode = PVE
    /\ aiDifficulty \in AIDifficulties
    /\ aiPlayerColor \in PieceColors
    /\ Quiet
    /\ NoHarness
    /\ pliesLeft = 0
    /\ opsLeft = 0

\* the evaluations that run before the time limit is passed, as explored:
\* none, one, a whole pass, one more; and all of them where the position is
\* small
Budgets(validMoves) ==
    (0..CutoffMargin)
    \cup (Len(validMoves)..(Len(validMoves) + CutoffMargin))
    \cup (IF Len(pieces) <= MaxFullSearchPieces
          THEN {maxDepth * Len(validMoves)} ELSE {})

\* the call that was made and the move it returned, with all the moves it
\* could have returned, and for each order of the moves of equal priority
\* the moves the same call returns when no coin changes the choice
Called(engine, budget, cutoff, r, rs, again) ==
    /\ chosen' = [engine |-> engine, aiColor |-> aiPlayerColor,
                  difficulty |-> aiDifficulty, budget |-> budget,
                  cutoff |-> cutoff, coin |-> r.coin, result |-> r.move,
                  outcomes |-> {o.move : o \in rs}, again |-> again,
                  run |-> 1, previous |-> NoMove]
    /\ UNCHANGED <<boardVars, history, settingVars, flightVars, storage,
                   heap, search, pliesLeft, opsLeft>>

\* the moves of a set of results for which no coin changed the choice
Uncoined(rs) == {o.move : o \in {q \in rs : ~q.coin}}

\* AI.makeMove(gameModel), as Game.checkAndExecuteAITurn awaits it
CallAI ==
    /\ chosen = NoCall
    /\ \E rs \in {NoCoin(AImakeMove(GM, aiPlayerColor, aiDifficulty))} :
       \E r \in rs :
          Called("AI", 0, FALSE, r, rs,
                 [kept |-> Uncoined(rs), reversed |-> Uncoined(rs)])

\* AIWorker.makeMove(data, aiColor, difficulty) for a posted message with
\* the data, the AI's colour and the difficulty of the model
CallWorker ==
    /\ chosen = NoCall
    /\ \E gm \in {Posted(toJSON(Model))} :
       \E validMoves \in {getAllValidMoves(gm, gm.currentTurn)} :
       \E budget \in IF aiDifficulty = HARD /\ aiPlayerColor = gm.currentTurn
                     THEN Budgets(validMoves) ELSE {0} :
       \E rs \in {[kept |-> WorkerMakeMove(gm, validMoves, aiPlayerColor,
                                           aiDifficulty, "kept", budget),
                    reversed |-> WorkerMakeMove(gm, validMoves, aiPlayerColor,
                                               aiDifficulty, "reversed", budget)]} :
       \E tie \in TieOrders :
       \E r \in rs[tie] :
          Called("AIWorker", budget,
                 aiDifficulty = HARD /\ budget < maxDepth * Len(validMoves),
                 r, rs[tie],
                 [kept |-> Uncoined(rs.kept), reversed |-> Uncoined(rs.reversed)])

\* the same message posted again after a search that no time limit cut and
\* no coin changed: the second search, for any order of the moves of equal
\* priority, no coin changing its choice either
CallWorkerAgain ==
    /\ chosen # NoCall
    /\ chosen.engine = "AIWorker"
    /\ chosen.difficulty = HARD
    /\ chosen.run = 1
    /\ ~chosen.cutoff
    /\ ~chosen.coin
    /\ chosen.result # NoMove
    /\ \E tie \in TieOrders :
       \E move \in chosen.again[tie] :
          chosen' = [chosen EXCEPT !.run = 2, !.previous = chosen.result,
                                  !.result = move]
    /\ UNCHANGED <<boardVars, history, settingVars, flightVars, storage,
                   heap, search, pliesLeft, opsLeft>>

NextAI ==
    \/ CallAI
    \/ CallWorker
    \/ CallWorkerAgain

AISpec == InitAI /\ [][NextAI]_vars
----------------------------------------------------------------------------
(* The claims about the move choice *)

\* the move is a live piece of the side to move with one of its legal targets
ValidPair(move) ==
    /\ move # NoMove
    /\ move.piece \in DOMAIN pieces
    /\ pieces[move.piece].isAlive
    /\ pieces[move.piece].color = currentTurn
    /\ \E j \in DOMAIN getValidMoves(pieces[move.piece], GM) :
          getValidMoves(pieces[move.piece], GM)[j] = Position(move.x, move.y)

LegalMoves ==
    {m \in [piece : DOMAIN pieces, x : Xs, y : Ys] :
        /\ pieces[m.piece].isAlive
        /\ pieces[m.piece].color = currentTurn
        /\ canMove(pieces[m.piece], m.x, m.y, GM)}

\* those that leave the other side in check
CheckingMoves ==
    {m \in LegalMoves :
        isInCheck(Opponent(currentTurn), AfterMove(m.piece, m.x, m.y))}

\* those that land on a live piece
CapturingMoves ==
    {m \in LegalMoves :
        \E i \in LivePieces : /\ pieces[i].position.x = m.x
                              /\ pieces[i].position.y = m.y}

\* the tier the medium difficulty draws from
MediumTier ==
    IF CheckingMoves # {} THEN CheckingMoves
    ELSE IF CapturingMoves # {} THEN CapturingMoves
    ELSE LegalMoves

\* C16: the medium tier of either engine, asked for the side to move, which
\* has a legal move, returns a checking move if there is one, else a
\* capture if there is one, else any legal move, and each move of that
\* tier is one it can return
C16_MediumPreference ==
    (/\ chosen # NoCall
     /\ chosen.difficulty = MEDIUM
     /\ chosen.aiColor = currentTurn
     /\ LegalMoves # {})
       => /\ chosen.result \in MediumTier
          /\ chosen.outcomes = MediumTier

\* C16: the medium tier has returned one of several captures where no
\* move gives check
C16_Witness ==
    /\ chosen # NoCall
    /\ chosen.difficulty = MEDIUM
    /\ chosen.aiColor = currentTurn
    /\ CheckingMoves = {}
    /\ Cardinality(CapturingMoves) > 1
    /\ CapturingMoves # LegalMoves
    /\ chosen.result \in CapturingMoves

\* C17: a second run of the hard tier of the worker on the same state, the
\* coin of the random selection never falling and no time limit cutting
\* either search, returns the move the first run returned, whatever order
\* sortMoves gives to moves of equal priority
C17_SameMoveTwice ==
    (chosen # NoCall /\ chosen.run = 2) => chosen.result = chosen.previous
----------------------------------------------------------------------------
(* The search on its own *)

\* the depths the search is asked for
MaxSearchDepth == 3

\* the positions searched: a soldier between the generals; soldiers that
\* can take each other; a black general with no move; an advisor and a
\* soldier; two soldiers across the river
SearchBoards ==
    {<<Placed(1, KING, RED, <<4, 9, TRUE>>), Placed(2, SOLDIER, RED, <<4, 6, TRUE>>),
       Placed(3, KING, BLACK, <<4, 0, TRUE>>)>>,
     <<Placed(1, KING, RED, <<3, 9, TRUE>>), Placed(2, SOLDIER, RED, <<0, 4, TRUE>>),
       Placed(3, KING, BLACK, <<4, 0, TRUE>>), Placed(4, SOLDIER, BLACK, <<0, 3, TRUE>>),
       Placed(5, SOLDIER, BLACK, <<1, 4, TRUE>>)>>,
     <<Placed(1, KING, RED, <<4, 9, TRUE>>), Placed(2, SOLDIER, RED, <<4, 6, TRUE>>),
       Placed(3, SOLDIER, RED, <<3, 1, TRUE>>), Placed(4, SOLDIER, RED, <<5, 1, TRUE>>),
       Placed(5, KING, BLACK, <<4, 0, TRUE>>)>>,
     <<Placed(1, KING, RED, <<4, 9, TRUE>>), Placed(2, ADVISOR, RED, <<4, 8, TRUE>>),
       Placed(3, KING, BLACK, <<3, 0, TRUE>>), Placed(4, SOLDIER, BLACK, <<4, 6, TRUE>>)>>,
     <<Placed(1, KING, RED, <<3, 9, TRUE>>), Placed(2, SOLDIER, RED, <<2, 3, TRUE>>),
       Placed(3, KING, BLACK, <<5, 0, TRUE>>), Placed(4, SOLDIER, BLACK, <<6, 6, TRUE>>)>>}

InitSearch ==
    /\ pieces \in SearchBoards
    /\ currentTurn \in PieceColors
    /\ gameState = PLAYING
    /\ winner = NoWinner
    /\ isInCheckFlag = isInCheck(currentTurn, GM)
    /\ gameMode = PVE
    /\ aiDifficulty = HARD
    /\ aiPlayerColor = BLACK
    /\ Quiet
    /\ NoHarness
    /\ pliesLeft = 0
    /\ opsLeft = 0

\* minimax without pruning over the same tree and the same evaluation:
\* every move of every position down to the depth is searched
RECURSIVE plainMinimax(_, _, _, _)
plainMinimax(gm, depth, isMaximizingPlayer, aiColor) ==
    LET Fold(scores) ==
            [score |-> CHOOSE v \in {scores[i].score : i \in DOMAIN scores} :
                          \A i \in DOMAIN scores :
                             IF isMaximizingPlayer THEN scores[i].score <= v
                             ELSE v <= scores[i].score,
             evaluated |-> SumTo([i \in DOMAIN scores |-> scores[i].evaluated],
                                 Len(scores))]
        Search(validMoves) ==
            IF depth = 0 \/ Len(validMoves) = 0
            THEN [score |-> evaluatePosition(gm, aiColor), evaluated |-> 1]
            ELSE Fold(Array([i \in DOMAIN validMoves |->
                                plainMinimax(AfterExecuteMove(validMoves[i], gm),
                                             depth - 1, ~isMaximizingPlayer,
                                             aiColor)]))
    IN Search(getAllValidMoves(gm, gm.currentTurn))

\* AIWorker.minimax called with the full window for the position, the
\* maximizing player being the side the search is made for
Searched ==
    /\ search = NoSearch
    /\ \E depth \in 1..MaxSearchDepth :
       \E aiColor \in PieceColors :
       \E tie \in TieOrders :
       \E r \in {minimax(GM, depth, 0 - Infinity, Infinity,
                         currentTurn = aiColor, aiColor, tie)} :
          search' = [done |-> TRUE, depth |-> depth, aiColor |-> aiColor,
                     tie |-> tie, score |-> r.score, evaluated |-> r.evaluated]
    /\ UNCHANGED <<boardVars, history, settingVars, flightVars, storage,
                   heap, chosen, pliesLeft, opsLeft>>

NextSearch == Searched

SearchSpec == InitSearch /\ [][NextSearch]_vars

\* C18: the score minimax returns with the full window is the score of
\* minimax without pruning, for each position, depth and order of the
\* moves of equal priority
C18_PruningKeepsScore ==
    search.done =>
       search.score = plainMinimax(GM, search.depth,
                                   currentTurn = search.aiColor,
                                   search.aiColor).score

\* C18: a search of two plies or more has skipped positions that minimax
\* without pruning evaluates, and returned the same score
C18_Witness ==
    /\ search.done
    /\ search.depth >= 2
    /\ search.evaluated < plainMinimax(GM, search.depth,
                                       currentTurn = search.aiColor,
                                       search.aiColor).evaluated
    /\ search.score = plainMinimax(GM, search.depth,
                                   currentTurn = search.aiColor,
                                   search.aiColor).score
----------------------------------------------------------------------------
(* Game with its user operations, the animation and the AI's turn *)

\* the moves and the user operations of a game that are explored
GamePlies == 2
GameOps == 2

\* the men a game starts with here: of those Game.initializePieces sets up,
\* the generals and the soldiers of the middle file, on their squares
GameStart ==
    << PieceModel(1, KING, RED, 4, 9), PieceModel(2, SOLDIER, RED, 4, 6),
       PieceModel(3, KING, BLACK, 4, 0), PieceModel(4, SOLDIER, BLACK, 4, 3) >>

\* the canonical state of m written to the variables
Becomes(m) ==
    /\ pieces' = m.pieces
    /\ currentTurn' = m.currentTurn
    /\ gameState' = m.gameState
    /\ winner' = m.winner
    /\ isInCheckFlag' = m.isInCheck
    /\ history' = m.history
    /\ selection' = [selectedPieceId |-> m.selectedPieceId,
                     validMoves |-> m.validMoves]
    /\ gameMode' = m.gameMode
    /\ aiDifficulty' = m.aiDifficulty
    /\ aiPlayerColor' = m.aiPlayerColor

\* GameModel.clone: the clone's own history is empty
clone(m) == [m EXCEPT !.history = << >>]

\* GameModel.setWinner
setWinner(m, w) == [m EXCEPT !.winner = w, !.gameState = OVER]

\* the decision awaited by Game.checkAndExecuteAITurn: the move, the colour
\* of the piece object it holds, whether that object still is a piece of
\* the model, and the position the move was computed from
InFlight(move, m) ==
    [piece |-> move.piece, x |-> move.x, y |-> move.y,
     color |-> m.pieces[move.piece].color, stale |-> FALSE,
     pieces |-> m.pieces, currentTurn |-> m.currentTurn]

\* the piece objects of the model were replaced: a decision in flight
\* holds an object that is no piece of the model any more
Replaced(flight) ==
    IF flight = NoMove THEN NoMove ELSE [flight EXCEPT !.stale = TRUE]

\* Game.checkAndExecuteAITurn up to its await: the states it can leave, a
\* decision in flight or, the AI having no move, the winner set
checkAndExecuteAITurn(m, moving, flight) ==
    IF \/ m.gameMode # PVE
       \/ m.currentTurn # m.aiPlayerColor
       \/ m.gameState # PLAYING
       \/ moving
    THEN {[model |-> m, isAIMoving |-> moving, bestMove |-> flight]}
    ELSE LET Over(w) == IF w # NoWinner THEN setWinner(m, w) ELSE m
         IN {IF move = NoMove
             THEN [model |-> Over(checkGameOver(GameModel(m.pieces, m.currentTurn))),
                   isAIMoving |-> FALSE, bestMove |-> NoMove]
             ELSE [model |-> m, isAIMoving |-> TRUE, bestMove |-> InFlight(move, m)] :
             move \in AImakeMove(GameModel(m.pieces, m.currentTurn),
                                 m.aiPlayerColor, m.aiDifficulty)}

\* Game.movePiece leaving the piece on the target alive
movePieceNoCapture(m, color, targetX, targetY) ==
    [m EXCEPT !.history = Append(m.history, clone(m))]

\* Game.movePiece up to animation.add, for a piece object of a colour: the
\* state is pushed on the history and a piece of the other colour on the
\* target dies
movePiece(m, color, targetX, targetY) ==
    LET S == {i \in DOMAIN m.pieces :
                 /\ m.pieces[i].isAlive
                 /\ m.pieces[i].position.x = targetX
                 /\ m.pieces[i].position.y = targetY}
    IN [m EXCEPT !.history = Append(m.history, clone(m)),
                 !.pieces = IF S # {} /\ m.pieces[FirstIndex(S)].color # color
                            THEN [m.pieces EXCEPT ![FirstIndex(S)].isAlive = FALSE]
                            ELSE m.pieces]

\* the callback of Game.movePiece up to its call of checkAndExecuteAITurn:
\* the piece object takes the target; the selection is dropped; the check
\* flag; the winner or the turn
onComplete(m, anim) ==
    LET moved == IF anim.piece = 0 THEN m.pieces
                 ELSE [m.pieces EXCEPT ![anim.piece].position =
                                          Position(anim.targetX, anim.targetY)]
        Over(w) ==
            IF w # NoWinner
            THEN [setWinner(m, w) EXCEPT
                     !.pieces = moved,
                     !.selectedPieceId = 0,
                     !.validMoves = << >>,
                     !.isInCheck = isInCheck(Opponent(m.currentTurn),
                                             GameModel(moved, m.currentTurn))]
            ELSE [m EXCEPT
                     !.pieces = moved,
                     !.selectedPieceId = 0,
                     !.validMoves = << >>,
                     !.currentTurn = Opponent(m.currentTurn),
                     !.isInCheck = isInCheck(Opponent(m.currentTurn),
                                             GameModel(moved, Opponent(m.currentTurn)))]
    IN Over(checkGameOver(GameModel(moved, m.currentTurn)))

\* Game.newGame leaving the history as it is
newGameKeepsHistory(m) ==
    [m EXCEPT !.pieces = GameStart, !.currentTurn = RED, !.gameState = PLAYING,
              !.winner = NoWinner, !.isInCheck = FALSE, !.selectedPieceId = 0,
              !.validMoves = << >>]

\* Game.newGame up to its call of checkAndExecuteAITurn
newGame(m) ==
    [m EXCEPT !.pieces = GameStart, !.currentTurn = RED, !.gameState = PLAYING,
              !.winner = NoWinner, !.isInCheck = FALSE, !.selectedPieceId = 0,
              !.validMoves = << >>, !.history = << >>]

\* Game.undo, for a history that is not empty
undo(m) ==
    LET undoCount == Min(IF m.gameMode = PVE THEN 2 ELSE 1, Len(m.history))
        targetState == m.history[Len(m.history) - undoCount + 1]
    IN [m EXCEPT !.history = SubSeq(m.history, 1, Len(m.history) - undoCount),
                 !.pieces = targetState.pieces,
                 !.currentTurn = targetState.currentTurn,
                 !.gameState = targetState.gameState,
                 !.winner = targetState.winner,
                 !.isInCheck = targetState.isInCheck,
                 !.selectedPieceId = targetState.selectedPieceId,
                 !.validMoves = targetState.validMoves]

\* SaveLoad.saveWithDate: the game under its key, the time under the key
\* of the date
saveWithDate(store, m) ==
    setItem(save(store, m), Append(getStorageKey(m), "date"), "now")

InitGame ==
    /\ pieces = GameStart
    /\ currentTurn = RED
    /\ gameState = PLAYING
    /\ winner = NoWinner
    /\ isInCheckFlag = FALSE
    /\ DefaultSettings
    /\ Quiet
    /\ NoHarness
    /\ pliesLeft = GamePlies
    /\ opsLeft = GameOps

\* a user operation that ends in Game.newGame: the animations are cleared
\* and the AI is asked if the first turn is its own
Restarted(m) ==
    /\ opsLeft > 0
    /\ opsLeft' = opsLeft - 1
    /\ animation' = NoAnimation
    /\ \E after \in checkAndExecuteAITurn(newGame(m), isAIMoving, Replaced(bestMove)) :
          /\ Becomes(after.model)
          /\ isAIMoving' = after.isAIMoving
          /\ bestMove' = after.bestMove
    /\ UNCHANGED <<storage, harnessVars, pliesLeft>>

\* GameModel.selectPiece followed by GameModel.setValidMoves, as
\* Game.selectPiece calls them for a piece of the model
selectPiece(m, i) ==
    [m EXCEPT !.selectedPieceId = i,
              !.validMoves = getValidMoves(m.pieces[i],
                                           GameModel(m.pieces, m.currentTurn))]

\* GameModel.isValidMove
isValidMove(m, x, y) ==
    \E k \in DOMAIN m.validMoves : m.validMoves[k].x = x /\ m.validMoves[k].y = y

\* the squares a click is tried on: those of the pieces, the valid moves
\* shown, and a corner
ClickSquares ==
    {pieces[i].position : i \in DOMAIN pieces}
       \cup {selection.validMoves[k] : k \in DOMAIN selection.validMoves}
       \cup {Position(0, 0)}

\* Game.handleMouseClick on the square (x, y), past its guards: the model it
\* leaves and the animation it starts; a click on a valid move of the
\* selected piece starts Game.movePiece
handleMouseClick(m, x, y) ==
    LET Branch(clickedPiece) ==
            IF m.selectedPieceId # 0
            THEN IF isValidMove(m, x, y)
                 THEN [model |-> movePiece(m, m.pieces[m.selectedPieceId].color, x, y),
                       animation |-> [piece |-> m.selectedPieceId,
                                      color |-> m.pieces[m.selectedPieceId].color,
                                      targetX |-> x, targetY |-> y]]
                 ELSE IF clickedPiece # NoPiece /\ clickedPiece.color = m.currentTurn
                 THEN [model |-> selectPiece(m, clickedPiece.id),
                       animation |-> NoAnimation]
                 ELSE [model |-> [m EXCEPT !.selectedPieceId = 0,
                                           !.validMoves = << >>],
                       animation |-> NoAnimation]
            ELSE IF clickedPiece # NoPiece /\ clickedPiece.color = m.currentTurn
            THEN [model |-> selectPiece(m, clickedPiece.id),
                  animation |-> NoAnimation]
            ELSE [model |-> m, animation |-> NoAnimation]
    IN Branch(getPieceAt(GameModel(m.pieces, m.currentTurn), x, y))

\* Game.handleMouseClick: a click on a square of the board; clicks are
\* explored while moves are left to explore
Click ==
    /\ gameState = PLAYING
    /\ animation = NoAnimation
    /\ ~isAIMoving
    /\ ~(gameMode = PVE /\ currentTurn = aiPlayerColor)
    /\ pliesLeft > 0
    /\ \E square \in ClickSquares :
       \E after \in {handleMouseClick(Model, square.x, square.y)} :
          /\ pliesLeft' = IF after.animation # NoAnimation
                          THEN pliesLeft - 1 ELSE pliesLeft
          /\ Becomes(after.model)
          /\ animation' = after.animation
    /\ UNCHANGED <<isAIMoving, bestMove, storage, harnessVars, opsLeft>>

\* the animation ends and Animation.start calls the callback of
\* Game.movePiece, which may ask the AI
AnimationDone ==
    /\ animation # NoAnimation
    /\ animation' = NoAnimation
    /\ \E after \in {onComplete(Model, animation)} :
       \E asked \in IF after.gameState = OVER
                    THEN {[model |-> after, isAIMoving |-> isAIMoving,
                           bestMove |-> bestMove]}
                    ELSE checkAndExecuteAITurn(after, isAIMoving, bestMove) :
          /\ Becomes(asked.model)
          /\ isAIMoving' = asked.isAIMoving
          /\ bestMove' = asked.bestMove
    /\ UNCHANGED <<storage, harnessVars, pliesLeft, opsLeft>>

\* Game.checkAndExecuteAITurn after its await: the sleep of AI.makeMove is
\* over and the move it returned is handed to Game.movePiece
AIMoves ==
    /\ isAIMoving
    /\ bestMove # NoMove
    /\ Becomes(movePiece(Model, bestMove.color, bestMove.x, bestMove.y))
    /\ animation' = [piece |-> IF bestMove.stale THEN 0 ELSE bestMove.piece,
                     color |-> bestMove.color,
                     targetX |-> bestMove.x, targetY |-> bestMove.y]
    /\ isAIMoving' = FALSE
    /\ bestMove' = NoMove
    /\ UNCHANGED <<storage, harnessVars, pliesLeft, opsLeft>>

\* Game.undo
Undo ==
    /\ opsLeft > 0
    /\ history # << >>
    /\ opsLeft' = opsLeft - 1
    /\ Becomes(undo(Model))
    /\ animation' = NoAnimation
    /\ bestMove' = Replaced(bestMove)
    /\ UNCHANGED <<isAIMoving, storage, harnessVars, pliesLeft>>

\* Game.newGame, Game.reset
NewGameAgain == Restarted(Model)

\* Game.setGameMode
SetGameMode == \E mode \in GameModes : Restarted([Model EXCEPT !.gameMode = mode])

\* Game.setAIPlayerColor
SetAIPlayerColor ==
    \E color \in PieceColors : Restarted([Model EXCEPT !.aiPlayerColor = color])

\* Game.setAIDifficulty
SetAIDifficulty ==
    /\ opsLeft > 0
    /\ opsLeft' = opsLeft - 1
    /\ \E difficulty \in AIDifficulties :
          /\ difficulty # aiDifficulty
          /\ aiDifficulty' = difficulty
    /\ UNCHANGED <<boardVars, history, gameMode, aiPlayerColor, flightVars,
                   storage, harnessVars, pliesLeft>>

\* Game.saveGame
SaveGame ==
    /\ opsLeft > 0
    /\ opsLeft' = opsLeft - 1
    /\ storage' = saveWithDate(storage, Model)
    /\ UNCHANGED <<boardVars, history, settingVars, flightVars, harnessVars,
                   pliesLeft>>

\* Game.loadGame, where a game is saved for the mode settings
LoadGame ==
    /\ opsLeft > 0
    /\ hasSavedGame(storage, Model)
    /\ opsLeft' = opsLeft - 1
    /\ Becomes(load(storage, Model))
    /\ animation' = NoAnimation
    /\ bestMove' = Replaced(bestMove)
    /\ UNCHANGED <<isAIMoving, storage, harnessVars, pliesLeft>>

\* Game.pause
Pause ==
    /\ opsLeft > 0
    /\ gameState = PLAYING
    /\ opsLeft' = opsLeft - 1
    /\ gameState' = INIT
    /\ UNCHANGED <<pieces, currentTurn, winner, isInCheckFlag, history,
                   settingVars, flightVars, storage, harnessVars, pliesLeft>>

\* Game.resume
Resume ==
    /\ opsLeft > 0
    /\ gameState = INIT
    /\ opsLeft' = opsLeft - 1
    /\ gameState' = PLAYING
    /\ UNCHANGED <<pieces, currentTurn, winner, isInCheckFlag, history,
                   settingVars, flightVars, storage, harnessVars, pliesLeft>>

NextGame ==
    \/ Click
    \/ AnimationDone
    \/ AIMoves
    \/ Undo
    \/ NewGameAgain
    \/ SetGameMode
    \/ SetAIPlayerColor
    \/ SetAIDifficulty
    \/ SaveGame
    \/ LoadGame
    \/ Pause
    \/ Resume

GameSpec == InitGame /\ [][NextGame]_vars

\* C20: in every state of a game, GameModel.fromJSON of GameModel.toJSON
\* gives back the pieces in their order, the side to move, the check
\* flag, the game state, the winner, the mode, the difficulty, the AI's
\* colour and the snapshots of the history; and SaveLoad.load right after
\* SaveLoad.save returns the state that was saved
C20_RoundTrip ==
    /\ fromJSON(toJSON(Model)) = Model
    /\ load(save(storage, Model), Model) = Model

\* C20: a game against the AI with moves to take back and a winner is
\* saved, and SaveLoad.load returns it
C20_Witness ==
    /\ gameMode = PVE
    /\ history # << >>
    /\ \E i \in DOMAIN pieces : ~pieces[i].isAlive
    /\ hasSavedGame(storage, Model)
    /\ load(storage, Model) = Model
    /\ fromJSON(toJSON(Model)).history = history

\* C19: while a decision of the AI is in flight, from checkAndExecuteAITurn
\* setting isAIMoving until the move is handed to movePiece, the pieces and
\* the side to move are those the move was computed from
C19_NoMutationInFlight ==
    (isAIMoving /\ bestMove # NoMove)
       => /\ pieces = bestMove.pieces
          /\ currentTurn = bestMove.currentTurn

C26_AITurnServed ==
    (gameMode = PVE /\ gameState = PLAYING /\ currentTurn = aiPlayerColor)
       => (isAIMoving \/ animation # NoAnimation)

\* the snapshots Game.movePiece pushed for a move of the human player: the
\* side to move in them is not the AI's
HumanSnapshots == {k \in DOMAIN history : history[k].currentTurn # aiPlayerColor}

\* C27: in a game against the AI, undo on a history that holds a move of
\* the human player leaves the pieces, the side to move, the check flag,
\* the game state and the winner as they were right before the latest
\* move of the human player, with the human player to move
C27_UndoRetractsHumanMove ==
    [][(Undo /\ gameMode = PVE /\ HumanSnapshots # {})
          => /\ currentTurn' # aiPlayerColor
             /\ \E k \in HumanSnapshots :
                   /\ \A j \in HumanSnapshots : j <= k
                   /\ pieces' = history[k].pieces
                   /\ currentTurn' = history[k].currentTurn
                   /\ isInCheckFlag' = history[k].isInCheck
                   /\ gameState' = history[k].gameState
                   /\ winner' = history[k].winner]_vars

\* C25: a step that hands a move to Game.movePiece, from a click or from
\* the AI, is taken while the game is being played and moves a live piece
\* of the board, of the side to move, to a square Rules.canMove accepts on
\* the board of that moment; and the callback of a move that gives no
\* winner hands the turn to the other side
C25_CommittedMovesLegal ==
    [][/\ (animation = NoAnimation /\ animation' # NoAnimation)
             => /\ gameState = PLAYING
                /\ animation'.piece \in DOMAIN pieces
                /\ pieces[animation'.piece].isAlive
                /\ pieces[animation'.piece].color = currentTurn
                /\ canMove(pieces[animation'.piece],
                           animation'.targetX, animation'.targetY, GM)
       /\ (animation # NoAnimation /\ animation' = NoAnimation
              /\ opsLeft' = opsLeft /\ winner' = NoWinner)
             => currentTurn' = Opponent(currentTurn)]_vars

\* a model in which a move is half applied: against its latest snapshot a
\* piece has died, while no piece has moved and the side to move is the same
HalfApplied(m) ==
    /\ m.history # << >>
    /\ m.currentTurn = m.history[Len(m.history)].currentTurn
    /\ \A i \in DOMAIN m.pieces :
          m.pieces[i].position = m.history[Len(m.history)].pieces[i].position
    /\ \E i \in DOMAIN m.pieces :
          /\ m.history[Len(m.history)].pieces[i].isAlive
          /\ ~m.pieces[i].isAlive

\* C28: no move is half applied in a game at rest (no animation pending),
\* in a snapshot of the history, or in a game saved in the storage
C28_MoveAtomic ==
    /\ animation = NoAnimation => ~HalfApplied(Model)
    /\ \A k \in DOMAIN history : ~HalfApplied(history[k])
    /\ \A k \in DOMAIN storage :
          storage[k].key[Len(storage[k].key)] # "date"
             => ~HalfApplied(fromJSON(JSONparse(storage[k].text)))
----------------------------------------------------------------------------
(* Games near their end: a mate in one, a cannon between the generals *)

\* the moves and the user operations explored from these games
EndPlies == 1
EndOps == 2

\* games in progress with red to move: three red soldiers that can mate
\* the black general; a red cannon alone between the generals
EndBoards ==
    {<<Placed(1, KING, RED, <<4, 9, TRUE>>), Placed(2, SOLDIER, RED, <<4, 2, TRUE>>),
       Placed(3, KING, BLACK, <<4, 0, TRUE>>), Placed(4, SOLDIER, BLACK, <<0, 3, TRUE>>),
       Placed(5, SOLDIER, RED, <<3, 1, TRUE>>), Placed(6, SOLDIER, RED, <<5, 1, TRUE>>)>>,
     <<Placed(1, KING, RED, <<4, 9, TRUE>>), Placed(2, CANNON, RED, <<4, 5, TRUE>>),
       Placed(3, KING, BLACK, <<4, 0, TRUE>>), Placed(4, SOLDIER, BLACK, <<0, 3, TRUE>>)>>}

\* a game in progress, between two players or against the AI playing
\* black, with the human player to move and nothing under way
InitEnd ==
    /\ pieces \in EndBoards
    /\ currentTurn = RED
    /\ checkGameOver(GameModel(pieces, BLACK)) = NoWinner
    /\ gameState = PLAYING
    /\ winner = NoWinner
    /\ isInCheckFlag = isInCheck(RED, GameModel(pieces, RED))
    /\ gameMode \in GameModes
    /\ aiDifficulty = MEDIUM
    /\ aiPlayerColor = BLACK
    /\ Quiet
    /\ NoHarness
    /\ pliesLeft = EndPlies
    /\ opsLeft = EndOps

EndSpec == InitEnd /\ [][NextGame]_vars

\* a side has a move that Rules.canMove accepts on a board
CanMoveOn(ps, color) ==
    \E i \in DOMAIN ps :
       /\ ps[i].isAlive
       /\ ps[i].color = color
       /\ \E x \in Xs : \E y \in Ys : canMove(ps[i], x, y, GameModel(ps, color))

\* the callback of a move runs: the animation of state s ends in state t
\* without a user operation
MoveCompletes ==
    /\ animation # NoAnimation
    /\ animation' = NoAnimation
    /\ opsLeft' = opsLeft

\* C23: when the callback of a move leaves the side that moves next
\* without any legal move, the game state is OVER and the winner is the
\* side that moved
C23_NoMoveEndsGame ==
    [][(MoveCompletes /\ animation.piece \in DOMAIN pieces
           /\ ~CanMoveOn(pieces', Opponent(animation.color)))
          => (gameState' = OVER /\ winner' = animation.color)]_vars

\* C24: when the callback of a move leaves the two generals on one file
\* with no live piece between them, the game state is OVER and the winner
\* is the side that did not move
C24_FacingGeneralsLoseMover ==
    [][(MoveCompletes /\ isKingFaceToFace(GameModel(pieces', currentTurn')))
          => (gameState' = OVER /\ winner' = Opponent(animation.color))]_vars
----------------------------------------------------------------------------
(* New games on the whole board *)

\* the moves and the restarts explored
FreshPlies == 1
FreshOps == 2

\* Game.newGame with every man Game.initializePieces sets up
freshGame(m) == [newGame(m) EXCEPT !.pieces = InitialPieces]

\* the game the constructor leaves, or a game in progress near its end
InitFresh ==
    /\ pieces \in {InitialPieces} \cup EndBoards
    /\ currentTurn = RED
    /\ gameState = PLAYING
    /\ winner = NoWinner
    /\ isInCheckFlag = FALSE
    /\ DefaultSettings
    /\ Quiet
    /\ NoHarness
    /\ pliesLeft = FreshPlies
    /\ opsLeft = FreshOps

\* a user operation that ends in Game.newGame: the animations are cleared
\* and the AI is asked if the first turn is its own
FreshRestarted(m) ==
    /\ opsLeft > 0
    /\ opsLeft' = opsLeft - 1
    /\ animation' = NoAnimation
    /\ \E after \in checkAndExecuteAITurn(freshGame(m), isAIMoving, Replaced(bestMove)) :
          /\ Becomes(after.model)
          /\ isAIMoving' = after.isAIMoving
          /\ bestMove' = after.bestMove
    /\ UNCHANGED <<storage, harnessVars, pliesLeft>>

\* Game.newGame, Game.reset
FreshNewGame == FreshRestarted(Model)

\* Game.setGameMode
FreshSetGameMode ==
    \E mode \in GameModes : FreshRestarted([Model EXCEPT !.gameMode = mode])

\* Game.setAIPlayerColor
FreshSetAIPlayerColor ==
    \E color \in PieceColors : FreshRestarted([Model EXCEPT !.aiPlayerColor = color])

NextFresh ==
    \/ Click
    \/ AnimationDone
    \/ AIMoves
    \/ FreshNewGame
    \/ FreshSetGameMode
    \/ FreshSetAIPlayerColor

FreshSpec == InitFresh /\ [][NextFresh]_vars

\* the men of a type and a colour on a board
MenOf(ps, type, color) ==
    {i \in DOMAIN ps : ps[i].type = type /\ ps[i].color = color}

\* the standard layout: 32 live men on 32 squares of the board, of each
\* side one general, five soldiers and two of every other type, the
\* generals in the middle of the first ranks, and each black man on the
\* square that mirrors, across the river, the square of a red man of its type
StandardLayout(ps) ==
    /\ Len(ps) = 32
    /\ \A i \in DOMAIN ps : ps[i].isAlive /\ isValid(ps[i].position)
    /\ \A i, j \in DOMAIN ps : i # j => ps[i].position # ps[j].position
    /\ \A color \in PieceColors :
          /\ Cardinality(MenOf(ps, KING, color)) = 1
          /\ Cardinality(MenOf(ps, SOLDIER, color)) = 5
          /\ \A type \in PieceTypes \ {KING, SOLDIER} :
                Cardinality(MenOf(ps, type, color)) = 2
    /\ \A i \in MenOf(ps, KING, RED) : ps[i].position = Position(4, 9)
    /\ \A type \in PieceTypes :
          {Position(ps[i].position.x, BOARD_HEIGHT - ps[i].position.y) :
              i \in MenOf(ps, type, RED)}
             = {ps[i].position : i \in MenOf(ps, type, BLACK)}
    /\ ps = InitialPieces

\* C21: a step that ends in Game.newGame, from any state, leaves the 32
\* men of the standard layout, all alive and the sides mirrored, red to
\* move, the game state PLAYING, no winner, no check, no selection and an
\* empty history; the difficulty is kept, and so are the mode and the AI's
\* colour unless the step is the setter of one of them
C21_NewGameFresh ==
    [][opsLeft' < opsLeft
          => /\ StandardLayout(pieces')
             /\ currentTurn' = RED
             /\ gameState' = PLAYING
             /\ winner' = NoWinner
             /\ isInCheckFlag' = FALSE
             /\ selection' = NoSelection
             /\ history' = << >>
             /\ aiDifficulty' = aiDifficulty
             /\ FreshNewGame => (gameMode' = gameMode /\ aiPlayerColor' = aiPlayerColor)
             /\ FreshSetGameMode => aiPlayerColor' = aiPlayerColor
             /\ FreshSetAIPlayerColor => gameMode' = gameMode]_vars

\* C21: a new game was started after a move had been made: the board is
\* fresh and the history, which held that move, is empty
C21_Witness ==
    /\ pliesLeft < FreshPlies
    /\ opsLeft < FreshOps
    /\ StandardLayout(pieces)
    /\ history = << >>
    /\ currentTurn = RED
    /\ gameState = PLAYING
    /\ animation = NoAnimation
    /\ ~isAIMoving

\* C30: a move AIWorker.makeMove returns for a position, a colour and a
\* difficulty, after a search that no time limit cut and with no coin
\* changing the choice, is a move AI.makeMove can return for them; and a
\* move AI.makeMove returns on easy or medium is among those
\* AIWorker.makeMove can return
C30_SameMoves ==
    /\ (chosen # NoCall /\ chosen.engine = "AIWorker" /\ chosen.run = 1
           /\ ~chosen.cutoff /\ ~chosen.coin)
          => chosen.result \in AImakeMove(GM, aiPlayerColor, aiDifficulty)
    /\ (chosen # NoCall /\ chosen.engine = "AI" /\ aiDifficulty # HARD)
          => chosen.result \in
                {o.move : o \in WorkerMakeMove(GM, getAllValidMoves(GM, currentTurn),
                                               aiPlayerColor, aiDifficulty, "kept", 0)}

----------------------------------------------------------------------------
\* Game.movePiece and AIWorker.executeMove asked to move any piece of the
\* model, a dead one included

\* the calls explored from each position
ApplyPlies == 2
ApplyOps == 1

\* positions with a captured soldier: the generals, a red and a black
\* soldier on the middle file, at least one of the soldiers dead
ApplyBoards ==
    {<<Placed(1, KING, RED, <<4, 9, TRUE>>), Placed(2, SOLDIER, RED, <<4, y2, a2>>),
       Placed(3, KING, BLACK, <<4, 0, TRUE>>), Placed(4, SOLDIER, BLACK, <<4, y4, a4>>)>> :
     y2 \in {5, 6}, y4 \in {3, 4}, a2 \in BOOLEAN, a4 \in {FALSE}}

\* the squares a piece is asked to move to
ApplyTargets == {Position(4, 4), Position(4, 5), Position(3, 4)}

InitApply ==
    /\ pieces \in ApplyBoards
    /\ currentTurn \in {RED, BLACK}
    /\ gameState = PLAYING
    /\ winner = NoWinner
    /\ isInCheckFlag = isInCheck(currentTurn, GM)
    /\ gameMode = PVP
    /\ aiDifficulty = MEDIUM
    /\ aiPlayerColor = BLACK
    /\ Quiet
    /\ NoHarness
    /\ pliesLeft = ApplyPlies
    /\ opsLeft = ApplyOps

\* the call recorded: the function, the piece, whether the piece was dead,
\* whether the call raised an error, and the state it was made in
Applied(engine, i, raised) ==
    [engine |-> engine, piece |-> i, dead |-> ~pieces[i].isAlive, raised |-> raised,
     pieces |-> pieces, currentTurn |-> currentTurn, history |-> history]

\* Game.movePiece called with a piece of the model and a target: it has no
\* test of piece.isAlive and no throw
ApplyMovePiece ==
    /\ animation = NoAnimation
    /\ pliesLeft > 0
    /\ pliesLeft' = pliesLeft - 1
    /\ \E i \in DOMAIN pieces : \E target \in ApplyTargets :
          /\ Becomes(movePiece(Model, pieces[i].color, target.x, target.y))
          /\ animation' = [piece |-> i, color |-> pieces[i].color,
                           targetX |-> target.x, targetY |-> target.y]
          /\ chosen' = Applied("Game.movePiece", i, FALSE)
    /\ UNCHANGED <<isAIMoving, bestMove, storage, heap, search, opsLeft>>

\* AIWorker.executeMove called with a piece of the model and a target: it
\* has no test of piece.isAlive and no throw
ApplyExecuteMove ==
    /\ animation = NoAnimation
    /\ opsLeft > 0
    /\ opsLeft' = opsLeft - 1
    /\ \E i \in DOMAIN pieces : \E target \in ApplyTargets :
          /\ pieces' = AfterExecuteMove([piece |-> i, x |-> target.x, y |-> target.y],
                                        GM).pieces
          /\ chosen' = Applied("AIWorker.executeMove", i, FALSE)
    /\ UNCHANGED <<currentTurn, gameState, winner, isInCheckFlag, history, settingVars,
                   flightVars, storage, heap, search, pliesLeft>>

NextApply ==
    \/ ApplyMovePiece
    \/ AnimationDone
    \/ ApplyExecuteMove

ApplySpec == InitApply /\ [][NextApply]_vars

\* C22: when Game.movePiece or AIWorker.executeMove is asked to move a piece
\* whose liveness flag is false, it raises an error and leaves the positions,
\* the liveness flags, the side to move and the history as they were
C22_DeadPieceRefused ==
    (chosen # NoCall /\ chosen.dead)
       => /\ chosen.raised
          /\ pieces = chosen.pieces
          /\ currentTurn = chosen.currentTurn
          /\ history = chosen.history

====
